---- MODULE Spec2Model ----
(***************************************************************************)
(* Model of the type-relation engine of the Cadence semantic checker       *)
(* (runtime/sema/type.go): the type variants, Equal, IsResourceType and    *)
(* the subtype relation IsSubType / IsProperSubType / IsSameTypeKind.      *)
(*                                                                         *)
(* A type is a record of one uniform shape; the field `tag` names the Go   *)
(* variant.  Nominal types (composite, interface) and type parameters are  *)
(* heap objects in the code: the field `name` is the pointer, and the      *)
(* object's attributes live in the tables below.                           *)
(***************************************************************************)
EXTENDS Integers, Sequences, FiniteSets, TLC

\* the subtype engine: the two types given, and the call made on them
VARIABLES subType, superType, pc, op, result

\* unification: receiver and argument of the last Unify call, the shared
\* binding map after and before it, the errors it reported, its result,
\* and the result of Resolve
VARIABLES unifyType, unifyOther, typeParameters, typeParametersBefore,
          reported, unified, resolved, upc

\* container types and identifiers: the fields containerType, NestedTypes
\* and cachedIdentifiers of every nominal type, the last call made, and
\* whether a call has panicked
VARIABLES containerType, nestedTypes, cachedIdentifiers, lastCall, ipc

\* type annotations: the annotation given, the call made on it, the state
\* returned by TypeAnnotationState and the errors reported by
\* checkResourceAnnotation
VARIABLES annotation, annotationCall, annotationState, annotationErrors

annotVars == <<annotation, annotationCall, annotationState,
               annotationErrors>>

\* member resolvers: the call stack of every concurrent GetMembers caller,
\* the done flag and the mutex of every type's memberResolversOnce, the
\* field memberResolvers, how often each initialization body was entered,
\* and the map returned to every caller
VARIABLES callStack, onceDone, onceMutex, memberResolvers, bodyRuns,
          returned

membersVars == <<callStack, onceDone, onceMutex, memberResolvers, bodyRuns,
                 returned>>

\* interface declarations: the conformances and the member every
\* declaration spells out, the elaboration's InterfaceDeclarationTypes, the
\* field Members of every interface type, the errors reported, whether the
\* checker has panicked, and the last phase called
VARIABLES interfaceConformances, declarationMembers,
          InterfaceDeclarationTypes, Members, declErrors, fatal, declCall,
          phasesDone

declVars == <<interfaceConformances, declarationMembers,
              InterfaceDeclarationTypes, Members, declErrors, fatal,
              declCall, phasesDone>>

\* member conflicts: the two same-named members given to
\* checkDuplicateInterfaceMember, whether the conflicting one is inherited,
\* and what the call returned and reported
VARIABLES checkedMember, checkedConflictingMember, checkedInherited,
          checkedIsDuplicate, conflictErrors, cpc

conflictVars == <<checkedMember, checkedConflictingMember, checkedInherited,
                  checkedIsDuplicate, conflictErrors, cpc>>

\* entitlement mappings: the relations an entitlement mapping declaration
\* spells out, the field Relations of the type declared for it, the errors
\* reported, and whether declareEntitlementMappingType was called
VARIABLES mapDeclaration, mapRelations, mapErrors, mpc

entMapVars == <<mapDeclaration, mapRelations, mapErrors, mpc>>

\* chains of subtypes: three types, and the results of IsSubType on the
\* first and the second, the second and the third, the first and the third
VARIABLES chainTypes, chainResults, chpc

chainVars == <<chainTypes, chainResults, chpc>>

\* operations on types: a pair of types, the operation called on it and
\* what the operation returned
VARIABLES opTypes, opCall, opResult

typeOpVars == <<opTypes, opCall, opResult>>

\* attachments and their base types: the baseType of every attachment, the
\* chain of active calls of IsResourceType and what the first call returned
VARIABLES attachmentBaseType, resourceCalls, resourceResult

baseVars == <<attachmentBaseType, resourceCalls, resourceResult>>

\* a chain of value migrations applied to one stored value: the
\* migrations, whether a reporter is given, the loop's value, newValue and
\* position, the calls made on the reporter, the values the migrations
\* were called on, and how the call ended
VARIABLES valueMigrations, reporterGiven, migratedValue, newValue,
          migrationIndex, reports, migrateInputs, migrationState

migrationVars == <<valueMigrations, reporterGiven, migratedValue, newValue,
                   migrationIndex, reports, migrateInputs, migrationState>>

\* division of UInt32 values: the receiver, the other operand, and what
\* Div and SaturatingDiv returned
VARIABLES dividend, divisor, divResult, saturatingDivResult

divVars == <<dividend, divisor, divResult, saturatingDivResult>>

subtypeVars == <<subType, superType, pc, op, result>>

unifyVars == <<unifyType, unifyOther, typeParameters, typeParametersBefore,
               reported, unified, resolved, upc>>

identVars == <<containerType, nestedTypes, cachedIdentifiers, lastCall, ipc>>

vars == <<subtypeVars, unifyVars, identVars, annotVars, membersVars,
    declVars, conflictVars, entMapVars, chainVars, typeOpVars, baseVars,
    migrationVars, divVars>>

\* what the calls of one part of the engine leave alone
nonSubtypeVars == <<unifyVars, identVars, annotVars, membersVars, declVars,
    conflictVars, entMapVars, chainVars, typeOpVars, baseVars,
    migrationVars, divVars>>
nonUnifyVars == <<subtypeVars, identVars, annotVars, membersVars, declVars,
    conflictVars, entMapVars, chainVars, typeOpVars, baseVars,
    migrationVars, divVars>>
nonIdentVars == <<subtypeVars, unifyVars, annotVars, membersVars, declVars,
    conflictVars, entMapVars, chainVars, typeOpVars, baseVars,
    migrationVars, divVars>>
nonAnnotVars == <<subtypeVars, unifyVars, identVars, membersVars, declVars,
    conflictVars, entMapVars, chainVars, typeOpVars, baseVars,
    migrationVars, divVars>>
nonMembersVars == <<subtypeVars, unifyVars, identVars, annotVars, declVars,
    conflictVars, entMapVars, chainVars, typeOpVars, baseVars,
    migrationVars, divVars>>
nonDeclVars == <<subtypeVars, unifyVars, identVars, annotVars, membersVars,
    conflictVars, entMapVars, chainVars, typeOpVars, baseVars,
    migrationVars, divVars>>
nonConflictVars == <<subtypeVars, unifyVars, identVars, annotVars,
    membersVars, declVars, entMapVars, chainVars, typeOpVars, baseVars,
    migrationVars, divVars>>
nonEntMapVars == <<subtypeVars, unifyVars, identVars, annotVars,
    membersVars, declVars, conflictVars, chainVars, typeOpVars, baseVars,
    migrationVars, divVars>>
nonChainVars == <<subtypeVars, unifyVars, identVars, annotVars, membersVars,
    declVars, conflictVars, entMapVars, typeOpVars, baseVars, migrationVars,
    divVars>>
nonTypeOpVars == <<subtypeVars, unifyVars, identVars, annotVars,
    membersVars, declVars, conflictVars, entMapVars, chainVars, baseVars,
    migrationVars, divVars>>
nonBaseVars == <<subtypeVars, unifyVars, identVars, annotVars, membersVars,
    declVars, conflictVars, entMapVars, chainVars, typeOpVars,
    migrationVars, divVars>>
nonMigrationVars == <<subtypeVars, unifyVars, identVars, annotVars,
    membersVars, declVars, conflictVars, entMapVars, chainVars, typeOpVars,
    baseVars, divVars>>
nonDivVars == <<subtypeVars, unifyVars, identVars, annotVars, membersVars,
    declVars, conflictVars, entMapVars, chainVars, typeOpVars, baseVars,
    migrationVars>>

(***************************************************************************)
(* Bounds of the type universe.                                            *)
(***************************************************************************)
MaxOptionalDepth == 2
MaxParams == 1
MaxArraySize == 1

(***************************************************************************)
(* Access (authorization of a reference).                                  *)
(***************************************************************************)
NoAccess == [kind |-> "none", setKind |-> "", ents |-> {}]

UnauthorizedAccess == [kind |-> "primitive", setKind |-> "", ents |-> {}]

EntitlementSetAccess(setKind, ents) ==
    [kind |-> "set", setKind |-> setKind, ents |-> ents]

AccessEqual(a, b) == a = b

\* super-authorization `a` permits sub-authorization `b`
PermitsAccess(a, b) ==
    IF a.kind = "primitive" THEN TRUE
    ELSE IF b.kind # "set" THEN FALSE
    ELSE IF b.setKind = "disj"
         THEN IF a.setKind = "disj"
              THEN b.ents \subseteq a.ents
              ELSE Cardinality(a.ents) = 1 /\ a.ents = b.ents
         ELSE IF a.setKind = "disj"
              THEN \E e \in b.ents : e \in a.ents
              ELSE a.ents \subseteq b.ents

(***************************************************************************)
(* Type values.                                                            *)
(***************************************************************************)
Mk(tag, name, args, restrictions, auth, purity, ctor, size, tparams) ==
    [tag |-> tag, name |-> name, args |-> args,
     restrictions |-> restrictions, auth |-> auth, purity |-> purity,
     ctor |-> ctor, size |-> size, tparams |-> tparams]

Leaf(tag, name) == Mk(tag, name, <<>>, <<>>, NoAccess, "", FALSE, 0, <<>>)

SimpleType(name) == Leaf("Simple", name)
NumericType(name) == Leaf("Numeric", name)
FixedPointNumericType(name) == Leaf("FixedPoint", name)
CompositeType(ptr) == Leaf("Composite", ptr)
InterfaceType(ptr) == Leaf("Interface", ptr)
GenericType(typeParameter) == Leaf("Generic", typeParameter)

OptionalType(t) ==
    Mk("Optional", "", <<t>>, <<>>, NoAccess, "", FALSE, 0, <<>>)
VariableSizedType(t) ==
    Mk("VariableSized", "", <<t>>, <<>>, NoAccess, "", FALSE, 0, <<>>)
ConstantSizedType(t, size) ==
    Mk("ConstantSized", "", <<t>>, <<>>, NoAccess, "", FALSE, size, <<>>)
DictionaryType(k, v) ==
    Mk("Dictionary", "", <<k, v>>, <<>>, NoAccess, "", FALSE, 0, <<>>)
ReferenceType(t, authorization) ==
    Mk("Reference", "", <<t>>, <<>>, authorization, "", FALSE, 0, <<>>)
\* args = the parameter types followed by the return type
FunctionType(purity, tparams, params, ret, ctor) ==
    Mk("Function", "", params \o <<ret>>, <<>>, NoAccess, purity, ctor, 0,
       tparams)
RestrictedType(t, restrictions) ==
    Mk("Restricted", "", <<t>>, restrictions, NoAccess, "", FALSE, 0, <<>>)
\* args = <<>> when BorrowType is nil
CapabilityType(borrow) ==
    Mk("Capability", "", borrow, <<>>, NoAccess, "", FALSE, 0, <<>>)

Parameters(t) == SubSeq(t.args, 1, Len(t.args) - 1)
ReturnType(t) == t.args[Len(t.args)]

NeverType == SimpleType("Never")
AnyType == SimpleType("Any")
AnyStructType == SimpleType("AnyStruct")
AnyResourceType == SimpleType("AnyResource")
AnyResourceAttachmentType == SimpleType("AnyResourceAttachment")
AnyStructAttachmentType == SimpleType("AnyStructAttachment")
StringType == SimpleType("String")

NumberType == NumericType("Number")
SignedNumberType == NumericType("SignedNumber")
IntegerType == NumericType("Integer")
SignedIntegerType == NumericType("SignedInteger")
FixedPointType == NumericType("FixedPoint")
SignedFixedPointType == NumericType("SignedFixedPoint")
IntType == NumericType("Int")
UInt8Type == NumericType("UInt8")
Fix64Type == FixedPointNumericType("Fix64")
UFix64Type == FixedPointNumericType("UFix64")

UnsignedIntegerNames ==
    {"UInt", "UInt8", "UInt16", "UInt32", "UInt64", "UInt128", "UInt256",
     "Word8", "Word16", "Word32", "Word64"}

SignedIntegerNames ==
    {"Int", "Int8", "Int16", "Int32", "Int64", "Int128", "Int256"}

\* SimpleType.IsResource of the built-in simple types
SimpleIsResource(name) == name \in {"AnyResource", "AnyResourceAttachment"}

(***************************************************************************)
(* The declared nominal types: pointer |-> attributes.                     *)
(***************************************************************************)
CompositePtrs == {"S", "R", "X", "A"}
InterfacePtrs == {"SI", "RI"}

CompositeKind ==
    [p \in CompositePtrs |->
        CASE p = "S" -> "structure"
          [] p = "R" -> "resource"
          [] p = "X" -> "structure"
          [] p = "A" -> "attachment"]

CompositeID == [p \in CompositePtrs |-> "A.01.C." \o p]

ExplicitInterfaceConformances ==
    [p \in CompositePtrs |->
        CASE p = "S" -> <<"SI">>
          [] p = "R" -> <<"RI">>
          [] p = "X" -> <<"SI", "RI">>
          [] p = "A" -> <<>>]

\* baseType of an attachment ("" is nil)
CompositeBaseType ==
    [p \in CompositePtrs |-> IF p = "A" THEN "R" ELSE ""]

ImplicitTypeRequirementConformances == [p \in CompositePtrs |-> <<>>]

InterfaceCompositeKind ==
    [p \in InterfacePtrs |-> IF p = "SI" THEN "structure" ELSE "resource"]

InterfaceID == [p \in InterfacePtrs |-> "A.01.C." \o p]

TypeParameterPtrs == {"T", "U"}

Range(s) == {s[i] : i \in DOMAIN s}

ExplicitInterfaceConformanceSet(t) ==
    Range(ExplicitInterfaceConformances[t.name])

RestrictionSet(t) == Range(t.restrictions)

(***************************************************************************)
(* Type parameters: pointer |-> attributes.  T has no type bound, U is     *)
(* bounded by Integer.                                                     *)
(***************************************************************************)
\* the nil Type (a nil TypeBound, a nil BorrowType passed on as a type)
NilType == Leaf("Nil", "")

\* Map allocates a new TypeParameter for every type parameter it meets:
\* the copy of a type parameter has its name, its Optional and its type
\* bound as Map returned it, and is another pointer
TypeParameterCopy == [p \in TypeParameterPtrs |-> p \o "'"]

AllTypeParameterPtrs == TypeParameterPtrs \cup Range(TypeParameterCopy)

\* the type parameter a pointer was allocated from (itself when declared)
TypeParameterOrigin ==
    [p \in AllTypeParameterPtrs |->
        IF p \in TypeParameterPtrs THEN p
        ELSE CHOOSE q \in TypeParameterPtrs : TypeParameterCopy[q] = p]

TypeParameterName ==
    [p \in AllTypeParameterPtrs |-> TypeParameterOrigin[p]]
TypeParameterOptional == [p \in AllTypeParameterPtrs |-> FALSE]
TypeParameterTypeBound ==
    [p \in AllTypeParameterPtrs |->
        IF TypeParameterOrigin[p] = "U" THEN IntegerType ELSE NilType]

RECURSIVE Equal(_, _)

TypeParameterEqual(p, q) ==
    /\ TypeParameterName[p] = TypeParameterName[q]
    /\ IF TypeParameterTypeBound[p] = NilType
       THEN TypeParameterTypeBound[q] = NilType
       ELSE /\ TypeParameterTypeBound[q] # NilType
            /\ Equal(TypeParameterTypeBound[p], TypeParameterTypeBound[q])
    /\ TypeParameterOptional[p] = TypeParameterOptional[q]

RECURSIVE IsResourceType(_)
RECURSIVE IsSubType(_, _)
RECURSIVE checkSubTypeWithoutEquality(_, _)

(***************************************************************************)
(* IsResourceType of every variant.                                        *)
(***************************************************************************)
CompositeIsResourceType(t) ==
    \/ CompositeKind[t.name] = "resource"
    \/ /\ CompositeKind[t.name] = "attachment"
       /\ CompositeBaseType[t.name] # t.name
       /\ IsResourceType(CompositeType(CompositeBaseType[t.name]))

IsResourceType(t) ==
    CASE t.tag = "Simple" -> SimpleIsResource(t.name)
      [] t.tag \in {"Numeric", "FixedPoint", "Generic", "Function",
                    "Reference", "Capability"} -> FALSE
      [] t.tag \in {"Optional", "VariableSized", "ConstantSized",
                    "Restricted"} -> IsResourceType(t.args[1])
      [] t.tag = "Dictionary" ->
            IsResourceType(t.args[1]) \/ IsResourceType(t.args[2])
      [] t.tag = "Composite" -> CompositeIsResourceType(t)
      [] t.tag = "Interface" ->
            InterfaceCompositeKind[t.name] = "resource"

isAttachmentType(t) ==
    \/ t.tag = "Composite" /\ CompositeKind[t.name] = "attachment"
    \/ t = AnyResourceAttachmentType
    \/ t = AnyStructAttachmentType

(***************************************************************************)
(* Equal of every variant.                                                 *)
(***************************************************************************)
SimpleTypeEqual(t, other) == other = t

NumericTypeEqual(t, other) ==
    \/ t = other
    \/ other.tag = t.tag /\ t.name = other.name

CompositeTypeEqual(t, other) ==
    /\ other.tag = "Composite"
    /\ CompositeKind[other.name] = CompositeKind[t.name]
    /\ CompositeID[other.name] = CompositeID[t.name]

InterfaceTypeEqual(t, other) ==
    /\ other.tag = "Interface"
    /\ InterfaceCompositeKind[other.name] = InterfaceCompositeKind[t.name]
    /\ InterfaceID[other.name] = InterfaceID[t.name]

GenericTypeEqual(t, other) ==
    other.tag = "Generic" /\ t.name = other.name

TypeAnnotationEqual(a, other) ==
    IsResourceType(a) = IsResourceType(other) /\ Equal(a, other)

FunctionTypeEqual(t, other) ==
    /\ other.tag = "Function"
    /\ t.purity = other.purity
    /\ Len(t.tparams) = Len(other.tparams)
    /\ \A i \in DOMAIN t.tparams :
          TypeParameterEqual(t.tparams[i], other.tparams[i])
    /\ Len(Parameters(t)) = Len(Parameters(other))
    /\ \A i \in DOMAIN Parameters(t) :
          TypeAnnotationEqual(Parameters(t)[i], Parameters(other)[i])
    /\ t.ctor = other.ctor
    /\ Equal(ReturnType(t), ReturnType(other))

ReferenceTypeEqual(t, other) ==
    /\ other.tag = "Reference"
    /\ AccessEqual(t.auth, other.auth)
    /\ Equal(t.args[1], other.args[1])

RestrictedTypeEqual(t, other) ==
    /\ other.tag = "Restricted"
    /\ Equal(other.args[1], t.args[1])
    /\ Cardinality(RestrictionSet(t)) = Cardinality(RestrictionSet(other))
    /\ RestrictionSet(t) \subseteq RestrictionSet(other)

\* faulty variant: the nil borrow type of both sides is not handled
CapabilityTypeEqual_NoNilCase(t, other) ==
    /\ other.tag = "Capability"
    /\ other.args # <<>>
    /\ t.args # <<>>
    /\ Equal(other.args[1], t.args[1])

CapabilityTypeEqual(t, other) ==
    /\ other.tag = "Capability"
    /\ IF other.args = <<>>
       THEN t.args = <<>>
       ELSE t.args # <<>> /\ Equal(other.args[1], t.args[1])

Equal(t, other) ==
    CASE t.tag = "Simple" -> SimpleTypeEqual(t, other)
      [] t.tag \in {"Numeric", "FixedPoint"} -> NumericTypeEqual(t, other)
      [] t.tag = "Composite" -> CompositeTypeEqual(t, other)
      [] t.tag = "Interface" -> InterfaceTypeEqual(t, other)
      [] t.tag = "Generic" -> GenericTypeEqual(t, other)
      [] t.tag \in {"Optional", "VariableSized"} ->
            other.tag = t.tag /\ Equal(t.args[1], other.args[1])
      [] t.tag = "ConstantSized" ->
            /\ other.tag = t.tag
            /\ Equal(t.args[1], other.args[1])
            /\ t.size = other.size
      [] t.tag = "Dictionary" ->
            /\ other.tag = t.tag
            /\ Equal(other.args[1], t.args[1])
            /\ Equal(other.args[2], t.args[2])
      [] t.tag = "Function" -> FunctionTypeEqual(t, other)
      [] t.tag = "Reference" -> ReferenceTypeEqual(t, other)
      [] t.tag = "Restricted" -> RestrictedTypeEqual(t, other)
      [] t.tag = "Capability" -> CapabilityTypeEqual(t, other)

(***************************************************************************)
(* The subtype relation.  checkSubTypeWithoutEquality is split along the   *)
(* cases of its two switches; a case that leaves the switch without        *)
(* returning ends in parameterizedFallback, the code after the switch.     *)
(***************************************************************************)
TopTypes == {AnyResourceType, AnyStructType, AnyType}

\* T<Us> <: V if T <: V
parameterizedFallback(sub, sup) ==
    /\ sub.tag = "Capability"
    /\ sub.args # <<>>
    /\ IsSubType(CapabilityType(<<>>), sup)

\* faulty variant: Any is accepted by AnyStruct
checkAnyStructSuperType_AcceptsAny(sub) == ~IsResourceType(sub)

checkAnyStructSuperType(sub) ==
    IF IsResourceType(sub) THEN FALSE ELSE sub # AnyType

checkNumericSuperType(sub, sup) ==
    CASE sup = NumberType ->
            \/ sub \in {NumberType, SignedNumberType}
            \/ IsSubType(sub, IntegerType)
            \/ IsSubType(sub, FixedPointType)
      [] sup = SignedNumberType ->
            \/ sub = SignedNumberType
            \/ IsSubType(sub, SignedIntegerType)
            \/ IsSubType(sub, SignedFixedPointType)
      [] sup = IntegerType ->
            IF \/ sub \in {IntegerType, SignedIntegerType}
               \/ sub.tag = "Numeric" /\ sub.name \in UnsignedIntegerNames
            THEN TRUE
            ELSE IsSubType(sub, SignedIntegerType)
      [] sup = SignedIntegerType ->
            \/ sub = SignedIntegerType
            \/ sub.tag = "Numeric" /\ sub.name \in SignedIntegerNames
      [] sup = FixedPointType ->
            IF sub \in {FixedPointType, SignedFixedPointType, UFix64Type}
            THEN TRUE
            ELSE IsSubType(sub, SignedFixedPointType)
      [] sup = SignedFixedPointType ->
            sub \in {SignedFixedPointType, Fix64Type}

\* faulty variant: only an optional is a subtype of an optional
checkOptionalSuperType_OptionalOnly(sub, sup) ==
    /\ sub.tag = "Optional"
    /\ IsSubType(sub.args[1], sup.args[1])

checkOptionalSuperType(sub, sup) ==
    IF sub.tag # "Optional"
    THEN IsSubType(sub, sup.args[1])
    ELSE IsSubType(sub.args[1], sup.args[1])

\* faulty variant: the authorization check runs in the opposite direction
checkReferenceSuperType_Flipped(sub, sup) ==
    IF sub.tag # "Reference" THEN FALSE
    ELSE IF ~PermitsAccess(sub.auth, sup.auth) THEN FALSE
    ELSE IsSubType(sub.args[1], sup.args[1])

checkReferenceSuperType(sub, sup) ==
    IF sub.tag # "Reference" THEN FALSE
    ELSE IF ~PermitsAccess(sup.auth, sub.auth) THEN FALSE
    ELSE IsSubType(sub.args[1], sup.args[1])

\* faulty variant: parameters are covariant
checkFunctionSuperType_Covariant(sub, sup) ==
    IF sub.tag # "Function" THEN FALSE
    ELSE IF sub.purity # sup.purity /\ sub.purity # "view" THEN FALSE
    ELSE IF Len(Parameters(sub)) # Len(Parameters(sup)) THEN FALSE
    ELSE IF \E i \in DOMAIN Parameters(sub) :
               ~IsSubType(Parameters(sub)[i], Parameters(sup)[i])
         THEN FALSE
    ELSE IF ~IsSubType(ReturnType(sub), ReturnType(sup)) THEN FALSE
    ELSE IF sub.ctor # sup.ctor THEN FALSE
    ELSE TRUE

checkFunctionSuperType(sub, sup) ==
    IF sub.tag # "Function" THEN FALSE
    ELSE IF sub.purity # sup.purity /\ sub.purity # "view" THEN FALSE
    ELSE IF Len(Parameters(sub)) # Len(Parameters(sup)) THEN FALSE
    ELSE IF \E i \in DOMAIN Parameters(sub) :
               ~IsSubType(Parameters(sup)[i], Parameters(sub)[i])
         THEN FALSE
    ELSE IF ~IsSubType(ReturnType(sub), ReturnType(sup)) THEN FALSE
    ELSE IF sub.ctor # sup.ctor THEN FALSE
    ELSE TRUE

\* faulty variant: T{Us} is compared by its restrictions Us, not by the
\* conformances of T
checkRestrictedTopSuperType_ByRestrictions(sub, sup) ==
    IF sub \in TopTypes THEN FALSE
    ELSE IF sub.tag = "Restricted"
    THEN IF sub.args[1] \in TopTypes \/ sub.args[1].tag = "Composite"
         THEN /\ IsSubType(sub.args[1], sup.args[1])
              /\ RestrictionSet(sup) \subseteq RestrictionSet(sub)
         ELSE parameterizedFallback(sub, sup)
    ELSE IF sub.tag = "Composite"
    THEN /\ IsSubType(sub, sup.args[1])
         /\ RestrictionSet(sup) \subseteq ExplicitInterfaceConformanceSet(sub)
    ELSE parameterizedFallback(sub, sup)

\* supertype AnyResource{Vs} / AnyStruct{Vs} / Any{Vs}
checkRestrictedTopSuperType(sub, sup) ==
    IF sub \in TopTypes THEN FALSE
    ELSE IF sub.tag = "Restricted"
    THEN IF sub.args[1] \in TopTypes
         THEN /\ IsSubType(sub.args[1], sup.args[1])
              /\ RestrictionSet(sup) \subseteq RestrictionSet(sub)
         ELSE IF sub.args[1].tag = "Composite"
         THEN /\ IsSubType(sub.args[1], sup.args[1])
              /\ RestrictionSet(sup) \subseteq
                    ExplicitInterfaceConformanceSet(sub.args[1])
         ELSE parameterizedFallback(sub, sup)
    ELSE IF sub.tag = "Composite"
    THEN /\ IsSubType(sub, sup.args[1])
         /\ RestrictionSet(sup) \subseteq ExplicitInterfaceConformanceSet(sub)
    ELSE parameterizedFallback(sub, sup)

\* faulty variant: Ws must be a subset of Us
checkRestrictedConcreteSuperType_Subset(sub, sup) ==
    IF sub.tag = "Restricted"
    THEN IF sub.args[1] \in TopTypes THEN FALSE
         ELSE IF sub.args[1].tag = "Composite"
         THEN /\ sub.args[1] = sup.args[1]
              /\ RestrictionSet(sup) \subseteq RestrictionSet(sub)
         ELSE parameterizedFallback(sub, sup)
    ELSE IF sub.tag = "Composite"
    THEN IsSubType(sub, sup.args[1])
    ELSE IF sub \in TopTypes THEN FALSE
    ELSE parameterizedFallback(sub, sup)

\* supertype V{Ws} with V not a top type
checkRestrictedConcreteSuperType(sub, sup) ==
    IF sub.tag = "Restricted"
    THEN IF sub.args[1] \in TopTypes THEN FALSE
         ELSE IF sub.args[1].tag = "Composite"
         THEN sub.args[1] = sup.args[1]
         ELSE parameterizedFallback(sub, sup)
    ELSE IF sub.tag = "Composite"
    THEN IsSubType(sub, sup.args[1])
    ELSE IF sub \in TopTypes THEN FALSE
    ELSE parameterizedFallback(sub, sup)

checkRestrictedSuperType(sub, sup) ==
    IF sup.args[1] \in TopTypes
    THEN checkRestrictedTopSuperType(sub, sup)
    ELSE checkRestrictedConcreteSuperType(sub, sup)

checkCompositeSuperType(sub, sup) ==
    IF sub.tag = "Restricted"
    THEN IF sub.args[1] \in TopTypes THEN FALSE
         ELSE IF sub.args[1].tag = "Composite"
         THEN sub.args[1] = sup
         ELSE parameterizedFallback(sub, sup)
    ELSE IF /\ sub.tag = "Composite"
            /\ sup.name \in Range(ImplicitTypeRequirementConformances[sub.name])
    THEN TRUE
    ELSE parameterizedFallback(sub, sup)

\* faulty variant: the composite kind is not compared
checkInterfaceSuperType_NoKind(sub, sup) ==
    IF sub.tag = "Composite"
    THEN sup.name \in ExplicitInterfaceConformanceSet(sub)
    ELSE IF sub.tag = "Restricted"
    THEN sup.name \in RestrictionSet(sub)
    ELSE IF sub.tag = "Interface" THEN FALSE
    ELSE parameterizedFallback(sub, sup)

checkInterfaceSuperType(sub, sup) ==
    IF sub.tag = "Composite"
    THEN IF CompositeKind[sub.name] # InterfaceCompositeKind[sup.name]
         THEN FALSE
         ELSE sup.name \in ExplicitInterfaceConformanceSet(sub)
    ELSE IF sub.tag = "Restricted"
    THEN sup.name \in RestrictionSet(sub)
    ELSE IF sub.tag = "Interface" THEN FALSE
    ELSE parameterizedFallback(sub, sup)

\* CapabilityType.BaseType: nil without a borrow type, else a fresh
\* &CapabilityType{}
HasBaseType(t) == t.args # <<>>

\* CapabilityType.TypeArguments
TypeArguments(t) ==
    IF t.args = <<>>
    THEN <<ReferenceType(AnyType, UnauthorizedAccess)>>
    ELSE <<t.args[1]>>

\* faulty variant: the type arguments are not compared
checkParameterizedSuperType_BaseOnly(sub, sup) ==
    IF HasBaseType(sup) /\ sub.tag = "Capability" /\ HasBaseType(sub)
    THEN IsSubType(CapabilityType(<<>>), CapabilityType(<<>>))
    ELSE parameterizedFallback(sub, sup)

checkParameterizedSuperType(sub, sup) ==
    IF HasBaseType(sup) /\ sub.tag = "Capability" /\ HasBaseType(sub)
    THEN IF ~IsSubType(CapabilityType(<<>>), CapabilityType(<<>>))
         THEN FALSE
         ELSE IF Len(TypeArguments(sub)) # Len(TypeArguments(sup))
         THEN FALSE
         ELSE \A i \in DOMAIN TypeArguments(sup) :
                 IsSubType(TypeArguments(sub)[i], TypeArguments(sup)[i])
    ELSE parameterizedFallback(sub, sup)

\* SimpleType.IsSuperTypeOf is nil for the simple types of the model
checkSimpleSuperType(sub, sup) == FALSE

checkSubTypeWithoutEquality(sub, sup) ==
    IF sub = NeverType THEN TRUE
    ELSE IF sup = AnyType THEN TRUE
    ELSE IF sup = AnyStructType THEN checkAnyStructSuperType(sub)
    ELSE IF sup = AnyResourceType THEN IsResourceType(sub)
    ELSE IF sup = AnyResourceAttachmentType
         THEN IsResourceType(sub) /\ isAttachmentType(sub)
    ELSE IF sup = AnyStructAttachmentType
         THEN ~IsResourceType(sub) /\ isAttachmentType(sub)
    ELSE IF sup \in {NumberType, SignedNumberType, IntegerType,
                     SignedIntegerType, FixedPointType, SignedFixedPointType}
         THEN checkNumericSuperType(sub, sup)
    ELSE CASE sup.tag = "Optional" -> checkOptionalSuperType(sub, sup)
           [] sup.tag = "Dictionary" ->
                 /\ sub.tag = "Dictionary"
                 /\ IsSubType(sub.args[1], sup.args[1])
                 /\ IsSubType(sub.args[2], sup.args[2])
           [] sup.tag = "VariableSized" ->
                 /\ sub.tag = "VariableSized"
                 /\ IsSubType(sub.args[1], sup.args[1])
           [] sup.tag = "ConstantSized" ->
                 /\ sub.tag = "ConstantSized"
                 /\ sub.size = sup.size
                 /\ IsSubType(sub.args[1], sup.args[1])
           [] sup.tag = "Reference" -> checkReferenceSuperType(sub, sup)
           [] sup.tag = "Function" -> checkFunctionSuperType(sub, sup)
           [] sup.tag = "Restricted" -> checkRestrictedSuperType(sub, sup)
           [] sup.tag = "Composite" -> checkCompositeSuperType(sub, sup)
           [] sup.tag = "Interface" -> checkInterfaceSuperType(sub, sup)
           [] sup.tag = "Capability" -> checkParameterizedSuperType(sub, sup)
           [] sup.tag = "Simple" -> checkSimpleSuperType(sub, sup)
           [] OTHER -> parameterizedFallback(sub, sup)

IsSubType(sub, sup) ==
    IF Equal(sub, sup) THEN TRUE
    ELSE checkSubTypeWithoutEquality(sub, sup)

\* faulty variant: Never is not excluded
IsSameTypeKind_NeverIncluded(sub, sup) == IsSubType(sub, sup)

IsSameTypeKind(sub, sup) ==
    IF sub = NeverType THEN FALSE ELSE IsSubType(sub, sup)

IsProperSubType(sub, sup) ==
    IF Equal(sub, sup) THEN FALSE
    ELSE checkSubTypeWithoutEquality(sub, sup)

(***************************************************************************)
(* The types the checks range over.                                        *)
(***************************************************************************)
LeafTypes ==
    {NeverType, AnyType, AnyStructType, AnyResourceType, StringType,
     IntType, UInt8Type, IntegerType, GenericType("T")}
    \cup {CompositeType(p) : p \in CompositePtrs}
    \cup {InterfaceType(p) : p \in InterfacePtrs}

\* restriction lists: duplicate-free sequences of interfaces
RestrictionLists ==
    {<<>>, <<"SI">>, <<"RI">>, <<"SI", "RI">>, <<"RI", "SI">>}

RestrictedTypes ==
    {RestrictedType(t, rs) :
        t \in TopTypes \cup {CompositeType("S"), CompositeType("R"),
                             CompositeType("X")},
        rs \in RestrictionLists}

RECURSIVE Optionals(_, _)
Optionals(base, depth) ==
    IF depth = 0 THEN base
    ELSE base \cup {OptionalType(t) : t \in Optionals(base, depth - 1)}

OptionalTypes ==
    Optionals({NeverType, IntType, IntegerType, AnyStructType,
               CompositeType("R"), CompositeType("S")}, MaxOptionalDepth)
    \cup {OptionalType(t) : t \in LeafTypes}

Authorizations ==
    {UnauthorizedAccess,
     EntitlementSetAccess("conj", {"E"}),
     EntitlementSetAccess("conj", {"E", "F"}),
     EntitlementSetAccess("disj", {"E", "F"})}

ReferenceTypes ==
    {ReferenceType(t, a) :
        t \in {AnyType, AnyStructType, IntType, CompositeType("S"),
               CompositeType("R"),
               RestrictedType(AnyResourceType, <<"RI">>)},
        a \in Authorizations}

CapabilityTypes ==
    {CapabilityType(<<>>), CapabilityType(<<IntType>>)}
    \cup {CapabilityType(<<t>>) : t \in ReferenceTypes}

ArrayTypes ==
    {VariableSizedType(t) :
        t \in {IntType, AnyStructType, CompositeType("R")}}
    \cup {ConstantSizedType(t, n) :
            t \in {IntType, AnyStructType}, n \in 1..MaxArraySize}
    \cup {DictionaryType(k, v) :
            k \in {StringType}, v \in {IntType, AnyStructType,
                                       CompositeType("R")}}

RECURSIVE SeqsUpTo(_, _)
SeqsUpTo(S, n) ==
    IF n = 0 THEN {<<>>}
    ELSE SeqsUpTo(S, n - 1)
         \cup {Append(q, x) : q \in {r \in SeqsUpTo(S, n - 1) :
                                        Len(r) = n - 1}, x \in S}

FunctionTypes ==
    {FunctionType(purity, <<>>, params, ret, ctor) :
        purity \in {"impure", "view"},
        params \in SeqsUpTo({IntType, IntegerType}, MaxParams),
        ret \in {IntType, AnyStructType},
        ctor \in BOOLEAN}
    \cup {FunctionType("impure", <<"T">>, <<GenericType("T")>>, ret, FALSE) :
            ret \in {IntType, GenericType("T")}}

Types ==
    LeafTypes \cup RestrictedTypes \cup OptionalTypes \cup ReferenceTypes
    \cup CapabilityTypes \cup ArrayTypes \cup FunctionTypes

(***************************************************************************)
(* The state machine: a pair of types is given, and one of the three       *)
(* entry points of the subtype engine is called on it.                     *)
(***************************************************************************)
\* no call of the subtype engine is made
SubtypeIdle ==
    /\ subType = NilType
    /\ superType = NilType
    /\ pc = "idle"
    /\ op = "none"
    /\ result = FALSE

\* no Unify call is made
UnifyIdle ==
    /\ unifyType = NilType
    /\ unifyOther = NilType
    /\ typeParameters = [p \in TypeParameterPtrs |-> NilType]
    /\ typeParametersBefore = [p \in TypeParameterPtrs |-> NilType]
    /\ reported = <<>>
    /\ unified = FALSE
    /\ resolved = NilType
    /\ upc = "idle"

\* the nominal types whose container types and identifiers are followed
NominalPtrs == {"S", "R", "SI"}

\* the cachedIdentifiers of a type: nil, or the two cached strings (a
\* qualified identifier is the sequence of its dot-separated parts)
NoIdentifiers == [cached |-> FALSE, TypeID |-> <<>>,
                  QualifiedIdentifier |-> <<>>]

\* no call on a container type or an identifier is made
IdentIdle ==
    /\ containerType = [t \in NominalPtrs |-> ""]
    /\ nestedTypes = [t \in NominalPtrs |-> {}]
    /\ cachedIdentifiers = [t \in NominalPtrs |-> NoIdentifiers]
    /\ lastCall = [op |-> "none", type |-> "", container |-> "",
                   panicked |-> FALSE, before |-> ""]
    /\ ipc = "idle"

\* no call on a type annotation is made
AnnotIdle ==
    /\ annotation = [Type |-> NilType, IsResource |-> FALSE]
    /\ annotationCall = "idle"
    /\ annotationState = ""
    /\ annotationErrors = <<>>

\* the types whose member resolvers are asked for: the composite S, the
\* interface SI it conforms to, and one optional type O
MemberTypes == {"S", "SI", "O"}

\* the concurrent callers of GetMembers
MaxCallers == 2

Callers == 1..MaxCallers

\* a nil map[string]MemberResolver
NoMap == [built |-> FALSE, builder |-> 0, resolvers |-> {}]

\* no GetMembers call is made
MembersIdle ==
    /\ callStack = [c \in Callers |-> <<>>]
    /\ onceDone = [t \in MemberTypes |-> FALSE]
    /\ onceMutex = [t \in MemberTypes |-> 0]
    /\ memberResolvers = [t \in MemberTypes |-> NoMap]
    /\ bodyRuns = [t \in MemberTypes |-> 0]
    /\ returned = [c \in Callers |->
                      [type |-> "", path |-> "", map |-> NoMap]]

\* the interface declarations of one program; the interface type declared
\* for a declaration carries the declaration's name
InterfaceDeclarations == {"I", "J", "K", "L"}

\* a missing entry of a member map, and a member function `foo`
NoMember ==
    [present |-> FALSE, signature |-> "", HasImplementation |-> FALSE,
     HasConditions |-> FALSE, ContainerType |-> ""]

Member(signature, hasImplementation, hasConditions, container) ==
    [present |-> TRUE, signature |-> signature,
     HasImplementation |-> hasImplementation,
     HasConditions |-> hasConditions, ContainerType |-> container]

NoDeclCall ==
    [op |-> "", declaration |-> "", hadType |-> FALSE, checked |-> <<>>]

\* no declaration is checked
DeclIdle ==
    /\ interfaceConformances = [d \in InterfaceDeclarations |-> <<>>]
    /\ declarationMembers = [d \in InterfaceDeclarations |-> NoMember]
    /\ InterfaceDeclarationTypes = [d \in InterfaceDeclarations |-> "nil"]
    /\ Members = [d \in InterfaceDeclarations |-> NoMember]
    /\ declErrors = {}
    /\ fatal = FALSE
    /\ declCall = NoDeclCall
    /\ phasesDone = [d \in InterfaceDeclarations |-> {}]

\* no pair of members is compared
ConflictIdle ==
    /\ checkedMember = NoMember
    /\ checkedConflictingMember = NoMember
    /\ checkedInherited = FALSE
    /\ checkedIsDuplicate = FALSE
    /\ conflictErrors = {}
    /\ cpc = "idle"

\* no entitlement mapping is declared
EntMapIdle ==
    /\ mapDeclaration = <<>>
    /\ mapRelations = <<>>
    /\ mapErrors = <<>>
    /\ mpc = "idle"

\* no chain of subtypes is asked about
ChainIdle ==
    /\ chainTypes = <<>>
    /\ chainResults = <<>>
    /\ chpc = "idle"

\* no operation on types is called
TypeOpIdle ==
    /\ opTypes = <<>>
    /\ opCall = ""
    /\ opResult = <<>>

\* no attachment is declared
BaseIdle ==
    /\ attachmentBaseType = <<>>
    /\ resourceCalls = <<>>
    /\ resourceResult = ""

\* no value is migrated
MigrationIdle ==
    /\ valueMigrations = <<>>
    /\ reporterGiven = FALSE
    /\ migratedValue = <<>>
    /\ newValue = <<>>
    /\ migrationIndex = 0
    /\ reports = <<>>
    /\ migrateInputs = <<>>
    /\ migrationState = "idle"

\* no division is made
DivIdle ==
    /\ dividend = 0
    /\ divisor = <<>>
    /\ divResult = <<>>
    /\ saturatingDivResult = <<>>

IdleExceptSubtype == UnifyIdle /\ IdentIdle /\ AnnotIdle /\ MembersIdle /\
    DeclIdle /\ ConflictIdle /\ EntMapIdle /\ ChainIdle /\ TypeOpIdle /\
    BaseIdle /\ MigrationIdle /\ DivIdle
IdleExceptUnify == SubtypeIdle /\ IdentIdle /\ AnnotIdle /\ MembersIdle /\
    DeclIdle /\ ConflictIdle /\ EntMapIdle /\ ChainIdle /\ TypeOpIdle /\
    BaseIdle /\ MigrationIdle /\ DivIdle
IdleExceptIdent == SubtypeIdle /\ UnifyIdle /\ AnnotIdle /\ MembersIdle /\
    DeclIdle /\ ConflictIdle /\ EntMapIdle /\ ChainIdle /\ TypeOpIdle /\
    BaseIdle /\ MigrationIdle /\ DivIdle
IdleExceptAnnot == SubtypeIdle /\ UnifyIdle /\ IdentIdle /\ MembersIdle /\
    DeclIdle /\ ConflictIdle /\ EntMapIdle /\ ChainIdle /\ TypeOpIdle /\
    BaseIdle /\ MigrationIdle /\ DivIdle
IdleExceptMembers == SubtypeIdle /\ UnifyIdle /\ IdentIdle /\ AnnotIdle /\
    DeclIdle /\ ConflictIdle /\ EntMapIdle /\ ChainIdle /\ TypeOpIdle /\
    BaseIdle /\ MigrationIdle /\ DivIdle
IdleExceptDecl == SubtypeIdle /\ UnifyIdle /\ IdentIdle /\ AnnotIdle /\
    MembersIdle /\ ConflictIdle /\ EntMapIdle /\ ChainIdle /\ TypeOpIdle /\
    BaseIdle /\ MigrationIdle /\ DivIdle
IdleExceptConflict == SubtypeIdle /\ UnifyIdle /\ IdentIdle /\ AnnotIdle /\
    MembersIdle /\ DeclIdle /\ EntMapIdle /\ ChainIdle /\ TypeOpIdle /\
    BaseIdle /\ MigrationIdle /\ DivIdle
IdleExceptEntMap == SubtypeIdle /\ UnifyIdle /\ IdentIdle /\ AnnotIdle /\
    MembersIdle /\ DeclIdle /\ ConflictIdle /\ ChainIdle /\ TypeOpIdle /\
    BaseIdle /\ MigrationIdle /\ DivIdle
IdleExceptChain == SubtypeIdle /\ UnifyIdle /\ IdentIdle /\ AnnotIdle /\
    MembersIdle /\ DeclIdle /\ ConflictIdle /\ EntMapIdle /\ TypeOpIdle /\
    BaseIdle /\ MigrationIdle /\ DivIdle
IdleExceptTypeOp == SubtypeIdle /\ UnifyIdle /\ IdentIdle /\ AnnotIdle /\
    MembersIdle /\ DeclIdle /\ ConflictIdle /\ EntMapIdle /\ ChainIdle /\
    BaseIdle /\ MigrationIdle /\ DivIdle
IdleExceptBase == SubtypeIdle /\ UnifyIdle /\ IdentIdle /\ AnnotIdle /\
    MembersIdle /\ DeclIdle /\ ConflictIdle /\ EntMapIdle /\ ChainIdle /\
    TypeOpIdle /\ MigrationIdle /\ DivIdle
IdleExceptMigration == SubtypeIdle /\ UnifyIdle /\ IdentIdle /\ AnnotIdle /\
    MembersIdle /\ DeclIdle /\ ConflictIdle /\ EntMapIdle /\ ChainIdle /\
    TypeOpIdle /\ BaseIdle /\ DivIdle
IdleExceptDiv == SubtypeIdle /\ UnifyIdle /\ IdentIdle /\ AnnotIdle /\
    MembersIdle /\ DeclIdle /\ ConflictIdle /\ EntMapIdle /\ ChainIdle /\
    TypeOpIdle /\ BaseIdle /\ MigrationIdle

Init ==
    /\ subType \in Types
    /\ superType \in Types
    /\ pc = "input"
    /\ op = "none"
    /\ result = FALSE
    /\ IdleExceptSubtype

CallIsSubType ==
    /\ pc = "input"
    /\ pc' = "done"
    /\ op' = "IsSubType"
    /\ result' = IsSubType(subType, superType)
    /\ UNCHANGED <<subType, superType>>
    /\ UNCHANGED nonSubtypeVars

CallIsProperSubType ==
    /\ pc = "input"
    /\ pc' = "done"
    /\ op' = "IsProperSubType"
    /\ result' = IsProperSubType(subType, superType)
    /\ UNCHANGED <<subType, superType>>
    /\ UNCHANGED nonSubtypeVars

CallIsSameTypeKind ==
    /\ pc = "input"
    /\ pc' = "done"
    /\ op' = "IsSameTypeKind"
    /\ result' = IsSameTypeKind(subType, superType)
    /\ UNCHANGED <<subType, superType>>
    /\ UNCHANGED nonSubtypeVars

Next == CallIsSubType \/ CallIsProperSubType \/ CallIsSameTypeKind

Spec == Init /\ [][Next]_vars

TypeOK ==
    /\ subType \in Types
    /\ superType \in Types
    /\ pc \in {"idle", "input", "done"}
    /\ result \in BOOLEAN

(***************************************************************************)
(* Properties of the subtype engine.                                       *)
(***************************************************************************)
Called(o) == pc = "done" /\ op = o

\* C1: for two reference types that are not Equal, IsSubType holds exactly
\* when the super-authorization permits the sub-authorization and the
\* referenced types are subtypes; a non-reference type other than Never is
\* never a subtype of a reference type.
C1_ReferenceSubType ==
    (Called("IsSubType") /\ superType.tag = "Reference") =>
        IF subType.tag = "Reference"
        THEN ~Equal(subType, superType) =>
                (result <=>
                    /\ PermitsAccess(superType.auth, subType.auth)
                    /\ IsSubType(subType.args[1], superType.args[1]))
        ELSE subType # NeverType => ~result

C1_Witness ==
    /\ Called("IsSubType")
    /\ subType = ReferenceType(CompositeType("S"),
                               EntitlementSetAccess("conj", {"E", "F"}))
    /\ superType = ReferenceType(AnyStructType,
                                 EntitlementSetAccess("conj", {"E"}))
    /\ result

\* C2: with a supertype Top{Vs} (Top one of Any, AnyStruct, AnyResource), a
\* composite T, unrestricted or as the underlying type of T{Us}, is a
\* subtype exactly when T is a subtype of Top and every interface of Vs is
\* in T's explicit interface conformance set.
C2_RestrictedTopSuperType ==
    (/\ Called("IsSubType")
     /\ superType.tag = "Restricted"
     /\ superType.args[1] \in TopTypes) =>
        LET T == IF subType.tag = "Restricted" THEN subType.args[1]
                 ELSE subType
        IN  T.tag = "Composite" =>
                (result <=>
                    /\ IsSubType(T, superType.args[1])
                    /\ \A i \in RestrictionSet(superType) :
                          i \in ExplicitInterfaceConformanceSet(T))

C2_Witness ==
    /\ Called("IsSubType")
    /\ subType = RestrictedType(CompositeType("R"), <<>>)
    /\ superType = RestrictedType(AnyResourceType, <<"RI">>)
    /\ result

\* C3: T{Us} is a subtype of V{Ws} (T, V composites) exactly when T is V,
\* whatever Us and Ws are; T{Us} is a subtype of the composite V exactly
\* when T is V; a restricted type over Any, AnyStruct or AnyResource is
\* never a subtype of a restricted or unrestricted concrete composite.
C3_RestrictedConcrete ==
    (Called("IsSubType") /\ subType.tag = "Restricted") =>
        LET V == IF superType.tag = "Restricted" THEN superType.args[1]
                 ELSE superType
            T == subType.args[1]
        IN  V.tag = "Composite" =>
                /\ T.tag = "Composite" => (result <=> T.name = V.name)
                /\ T \in TopTypes => ~result

C3_Witness ==
    /\ Called("IsSubType")
    /\ subType = RestrictedType(CompositeType("X"), <<"SI">>)
    /\ superType = RestrictedType(CompositeType("X"), <<"RI">>)
    /\ result

\* C4: with an interface I as supertype, a composite C is a subtype exactly
\* when C's kind is I's composite kind and C's explicit conformance set
\* contains I; a restricted type exactly when its restriction set contains
\* I; an interface is never a subtype of a different interface.
C4_InterfaceSuperType ==
    (Called("IsSubType") /\ superType.tag = "Interface") =>
        /\ subType.tag = "Composite" =>
              (result <=>
                  /\ CompositeKind[subType.name] =
                        InterfaceCompositeKind[superType.name]
                  /\ superType.name \in ExplicitInterfaceConformanceSet(subType))
        /\ subType.tag = "Restricted" =>
              (result <=> superType.name \in RestrictionSet(subType))
        /\ (subType.tag = "Interface" /\ subType.name # superType.name) =>
              ~result

C4_Witness ==
    /\ Called("IsSubType")
    /\ subType = CompositeType("X")
    /\ superType = InterfaceType("RI")
    /\ ~result

\* C5: for two function types F and G that are not Equal, IsSubType(F, G)
\* holds exactly when the purities are the same or F is view, the parameter
\* counts are equal, every parameter type of G is a subtype of the
\* corresponding one of F, F's return type is a subtype of G's, and the
\* constructor flags are equal.
C5_FunctionSubType ==
    (/\ Called("IsSubType")
     /\ subType.tag = "Function"
     /\ superType.tag = "Function"
     /\ ~Equal(subType, superType)) =>
        (result <=>
            /\ (subType.purity = superType.purity \/ subType.purity = "view")
            /\ Len(Parameters(subType)) = Len(Parameters(superType))
            /\ \A i \in 1..Len(Parameters(superType)) :
                  IsSubType(Parameters(superType)[i], Parameters(subType)[i])
            /\ IsSubType(ReturnType(subType), ReturnType(superType))
            /\ subType.ctor = superType.ctor)

C5_Witness ==
    /\ Called("IsSubType")
    /\ subType = FunctionType("view", <<>>, <<IntegerType>>, IntType, FALSE)
    /\ superType =
          FunctionType("impure", <<>>, <<IntType>>, AnyStructType, FALSE)
    /\ result

\* C6: for every type t other than Never, IsSubType(t, AnyStruct) holds
\* exactly when t is not a resource type and t is not Any.
C6_AnyStructSuperType ==
    (/\ Called("IsSubType")
     /\ superType = AnyStructType
     /\ subType # NeverType) =>
        (result <=> (~IsResourceType(subType) /\ subType # AnyType))

C6_Witness ==
    /\ Called("IsSubType")
    /\ superType = AnyStructType
    /\ subType = AnyType
    /\ ~result

C8_NeverBottom ==
    /\ (Called("IsSubType") /\ subType = NeverType) => result
    /\ (Called("IsSameTypeKind") /\ subType = NeverType) => ~result
    /\ (Called("IsSameTypeKind") /\ subType # NeverType) =>
          result = IsSubType(subType, superType)

C8_Witness ==
    /\ Called("IsSameTypeKind")
    /\ subType = NeverType
    /\ superType = IntegerType
    /\ ~result

\* C9: IsSubType(T?, U?) holds exactly when IsSubType(T, U) holds; for a
\* non-optional T, IsSubType(T, U?) holds whenever IsSubType(T, U) holds;
\* IsSubType(T, T?) is true for every T and IsSubType(Int?, Int??) is true.
C9_OptionalSubType ==
    (Called("IsSubType") /\ superType.tag = "Optional") =>
        /\ subType.tag = "Optional" =>
              (result <=> IsSubType(subType.args[1], superType.args[1]))
        /\ (subType.tag # "Optional"
              /\ IsSubType(subType, superType.args[1])) => result
        /\ superType = OptionalType(subType) => result
        /\ (subType = OptionalType(IntType)
              /\ superType = OptionalType(OptionalType(IntType))) => result

C9_Witness ==
    /\ Called("IsSubType")
    /\ subType = OptionalType(IntType)
    /\ superType = OptionalType(OptionalType(IntType))
    /\ result

\* C10: Capability<T> is a subtype of Capability<U> exactly when the base
\* types are related, the type-argument lists have the same length and
\* the arguments are pairwise subtypes, that is exactly when T <: U.
C10_CapabilitySubType ==
    (/\ Called("IsSubType")
     /\ subType.tag = "Capability" /\ HasBaseType(subType)
     /\ superType.tag = "Capability" /\ HasBaseType(superType)) =>
        /\ result <=>
              /\ IsSubType(CapabilityType(<<>>), CapabilityType(<<>>))
              /\ Len(TypeArguments(subType)) = Len(TypeArguments(superType))
              /\ \A i \in 1..Len(TypeArguments(superType)) :
                    IsSubType(TypeArguments(subType)[i],
                              TypeArguments(superType)[i])
        /\ result <=> IsSubType(subType.args[1], superType.args[1])

C10_Witness ==
    /\ Called("IsSubType")
    /\ subType = CapabilityType(<<ReferenceType(CompositeType("S"),
                     EntitlementSetAccess("conj", {"E", "F"}))>>)
    /\ superType = CapabilityType(<<ReferenceType(AnyStructType,
                       UnauthorizedAccess)>>)
    /\ result

(***************************************************************************)
(* Unification of type parameters (Unify) and substitution of the bound    *)
(* type arguments (Resolve).  The binding map typeParameters maps a type   *)
(* parameter to its type, or to Unbound when the map has no entry for it.  *)
(* A call threads the record                                               *)
(*    [unified, bindings, errors, panicked]                                *)
(* through the walk: the boolean returned by the call, the map, the errors *)
(* handed to report, and whether the walk dereferenced a nil Type.         *)
(***************************************************************************)
Unbound == Leaf("Unbound", "")

EmptyBindings == [p \in TypeParameterPtrs |-> Unbound]

TypeParameterTypeMismatchError(p, expected, actual) ==
    [kind |-> "TypeParameterTypeMismatchError", typeParameter |-> p,
     expectedType |-> expected, actualType |-> actual]

TypeMismatchError(p, expected, actual) ==
    [kind |-> "TypeMismatchError", typeParameter |-> p,
     expectedType |-> expected, actualType |-> actual]

\* the errors checkTypeBound returns for the type ty bound to parameter p
checkTypeBound(p, ty) ==
    IF TypeParameterTypeBound[p] = NilType
    THEN <<>>
    ELSE IF ~IsSubType(ty, TypeParameterTypeBound[p])
         THEN <<TypeMismatchError(p, TypeParameterTypeBound[p], ty)>>
         ELSE <<>>

\* faulty variant: a bound type parameter is bound again to a non-Equal type
GenericTypeUnify_Rebinds(t, other, st) ==
    LET p == t.name
        unifiedType == st.bindings[p]
    IN  IF unifiedType # Unbound
        THEN IF other = NilType
             THEN [st EXCEPT !.panicked = TRUE]
             ELSE IF ~Equal(other, unifiedType)
                  THEN [st EXCEPT
                          !.unified = TRUE,
                          !.bindings = [st.bindings EXCEPT ![p] = other],
                          !.errors = Append(st.errors,
                              TypeParameterTypeMismatchError(
                                  p, unifiedType, other))]
                  ELSE [st EXCEPT !.unified = TRUE]
        ELSE IF other = NilType /\ TypeParameterTypeBound[p] # NilType
             THEN [st EXCEPT
                     !.bindings = [st.bindings EXCEPT ![p] = other],
                     !.panicked = TRUE]
             ELSE [st EXCEPT
                     !.unified = TRUE,
                     !.bindings = [st.bindings EXCEPT ![p] = other],
                     !.errors = st.errors \o checkTypeBound(p, other)]

\* other.Equal and ty.IsInvalidType dereference other: a nil other panics
GenericTypeUnify(t, other, st) ==
    LET p == t.name
        unifiedType == st.bindings[p]
    IN  IF unifiedType # Unbound
        THEN IF other = NilType
             THEN [st EXCEPT !.panicked = TRUE]
             ELSE IF ~Equal(other, unifiedType)
                  THEN [st EXCEPT
                          !.unified = TRUE,
                          !.errors = Append(st.errors,
                              TypeParameterTypeMismatchError(
                                  p, unifiedType, other))]
                  ELSE [st EXCEPT !.unified = TRUE]
        ELSE IF other = NilType /\ TypeParameterTypeBound[p] # NilType
             THEN [st EXCEPT
                     !.bindings = [st.bindings EXCEPT ![p] = other],
                     !.panicked = TRUE]
             ELSE [st EXCEPT
                     !.unified = TRUE,
                     !.bindings = [st.bindings EXCEPT ![p] = other],
                     !.errors = st.errors \o checkTypeBound(p, other)]

RECURSIVE Unify(_, _, _)
RECURSIVE unifyParameters(_, _, _, _)

\* the loop over the parameters: result = result || parameterUnified
unifyParameters(ps, qs, i, acc) ==
    IF i > Len(ps) \/ acc.panicked
    THEN acc
    ELSE LET r == Unify(ps[i], qs[i], acc)
         IN  unifyParameters(ps, qs, i + 1,
                 [r EXCEPT !.unified = acc.unified \/ r.unified])

\* faulty variant: only the return type decides the result
FunctionTypeUnify_ReturnOnly(t, other, st) ==
    IF \/ other.tag # "Function"
       \/ Len(t.tparams) > 0
       \/ Len(other.tparams) > 0
       \/ Len(Parameters(t)) # Len(Parameters(other))
    THEN [st EXCEPT !.unified = FALSE]
    ELSE LET afterParameters ==
                 unifyParameters(Parameters(t), Parameters(other), 1,
                                 [st EXCEPT !.unified = FALSE])
             afterReturn ==
                 Unify(ReturnType(t), ReturnType(other), afterParameters)
         IN  IF afterParameters.panicked
             THEN afterParameters
             ELSE afterReturn

FunctionTypeUnify(t, other, st) ==
    IF \/ other.tag # "Function"
       \/ Len(t.tparams) > 0
       \/ Len(other.tparams) > 0
       \/ Len(Parameters(t)) # Len(Parameters(other))
    THEN [st EXCEPT !.unified = FALSE]
    ELSE LET afterParameters ==
                 unifyParameters(Parameters(t), Parameters(other), 1,
                                 [st EXCEPT !.unified = FALSE])
             afterReturn ==
                 Unify(ReturnType(t), ReturnType(other), afterParameters)
         IN  IF afterParameters.panicked
             THEN afterParameters
             ELSE [afterReturn EXCEPT
                     !.unified = afterParameters.unified
                                 \/ afterReturn.unified]

DictionaryTypeUnify(t, other, st) ==
    IF other.tag # "Dictionary"
    THEN [st EXCEPT !.unified = FALSE]
    ELSE LET afterKey == Unify(t.args[1], other.args[1], st)
             afterValue == Unify(t.args[2], other.args[2], afterKey)
         IN  IF afterKey.panicked
             THEN afterKey
             ELSE [afterValue EXCEPT
                     !.unified = afterKey.unified \/ afterValue.unified]

\* a nil otherCap.BorrowType is passed on as the nil Type
CapabilityTypeUnify(t, other, st) ==
    IF other.tag # "Capability" \/ t.args = <<>>
    THEN [st EXCEPT !.unified = FALSE]
    ELSE Unify(t.args[1],
               IF other.args = <<>> THEN NilType ELSE other.args[1], st)

Unify(t, other, st) ==
    CASE t.tag = "Generic" -> GenericTypeUnify(t, other, st)
      [] t.tag \in {"Optional", "VariableSized", "Reference"} ->
            IF other.tag # t.tag
            THEN [st EXCEPT !.unified = FALSE]
            ELSE Unify(t.args[1], other.args[1], st)
      [] t.tag = "ConstantSized" ->
            IF other.tag # t.tag \/ t.size # other.size
            THEN [st EXCEPT !.unified = FALSE]
            ELSE Unify(t.args[1], other.args[1], st)
      [] t.tag = "Function" -> FunctionTypeUnify(t, other, st)
      [] t.tag = "Dictionary" -> DictionaryTypeUnify(t, other, st)
      [] t.tag = "Capability" -> CapabilityTypeUnify(t, other, st)
      [] t.tag \in {"Simple", "Numeric", "FixedPoint", "Composite",
                    "Interface", "Restricted"} ->
            [st EXCEPT !.unified = FALSE]

RECURSIVE Resolve(_, _)
RECURSIVE resolveParameters(_, _, _, _)

\* the loop over the parameters, up to and including the first parameter
\* that resolves to nil
resolveParameters(ps, typeArguments, i, acc) ==
    IF i > Len(ps)
    THEN acc
    ELSE LET newParameterType == Resolve(ps[i], typeArguments)
         IN  IF newParameterType = NilType
             THEN Append(acc, NilType)
             ELSE resolveParameters(ps, typeArguments, i + 1,
                                    Append(acc, newParameterType))

GenericTypeResolve(t, typeArguments) ==
    IF typeArguments[t.name] = Unbound
    THEN NilType
    ELSE typeArguments[t.name]

\* the new function type has neither TypeParameters nor IsConstructor
FunctionTypeResolve(t, typeArguments) ==
    LET newParameters ==
            resolveParameters(Parameters(t), typeArguments, 1, <<>>)
        newReturnType == Resolve(ReturnType(t), typeArguments)
    IN  IF \/ \E i \in DOMAIN newParameters : newParameters[i] = NilType
           \/ newReturnType = NilType
        THEN NilType
        ELSE FunctionType(t.purity, <<>>, newParameters, newReturnType,
                          FALSE)

DictionaryTypeResolve(t, typeArguments) ==
    LET newKeyType == Resolve(t.args[1], typeArguments)
        newValueType == Resolve(t.args[2], typeArguments)
    IN  IF newKeyType = NilType \/ newValueType = NilType
        THEN NilType
        ELSE DictionaryType(newKeyType, newValueType)

CapabilityTypeResolve(t, typeArguments) ==
    IF t.args = <<>>
    THEN CapabilityType(<<>>)
    ELSE LET resolvedBorrowType == Resolve(t.args[1], typeArguments)
         IN  IF resolvedBorrowType = NilType
             THEN CapabilityType(<<>>)
             ELSE CapabilityType(<<resolvedBorrowType>>)

Resolve(t, typeArguments) ==
    CASE t.tag = "Generic" -> GenericTypeResolve(t, typeArguments)
      [] t.tag \in {"Optional", "VariableSized", "ConstantSized",
                    "Reference"} ->
            LET newInnerType == Resolve(t.args[1], typeArguments)
            IN  IF newInnerType = NilType
                THEN NilType
                ELSE [t EXCEPT !.args = <<newInnerType>>]
      [] t.tag = "Function" -> FunctionTypeResolve(t, typeArguments)
      [] t.tag = "Dictionary" -> DictionaryTypeResolve(t, typeArguments)
      [] t.tag = "Capability" -> CapabilityTypeResolve(t, typeArguments)
      [] t.tag \in {"Simple", "Numeric", "FixedPoint", "Composite",
                    "Interface", "Restricted"} -> t

(***************************************************************************)
(* The state machine of unification: Unify is called any number of times   *)
(* on one shared binding map, which starts empty; Resolve is then called   *)
(* on the receiver of the last Unify call.                                 *)
(***************************************************************************)
\* the parameter lists of the function types that are unified
UnifyParameterLists(S) == {q \in SeqsUpTo(S, MaxParams) : Len(q) = MaxParams}

UnifyReceivers ==
    {GenericType("T"),
     OptionalType(GenericType("T")),
     ConstantSizedType(GenericType("T"), 1),
     DictionaryType(GenericType("T"), GenericType("T")),
     DictionaryType(GenericType("T"), GenericType("U")),
     ReferenceType(GenericType("T"), EntitlementSetAccess("conj", {"E"})),
     CapabilityType(<<ReferenceType(GenericType("T"), UnauthorizedAccess)>>),
     CapabilityType(<<GenericType("T")>>),
     FunctionType("impure", <<"T">>, <<GenericType("T")>>,
                  GenericType("T"), FALSE),
     RestrictedType(CompositeType("S"), <<"SI">>),
     IntType}
    \cup {FunctionType("impure", <<>>, ps, GenericType("T"), ctor) :
            ps \in UnifyParameterLists({GenericType("T")}),
            ctor \in BOOLEAN}
    \cup {FunctionType("view", <<>>, ps, IntType, FALSE) :
            ps \in UnifyParameterLists({GenericType("T")})}

UnifyOthers ==
    {IntType, StringType,
     OptionalType(IntType),
     ConstantSizedType(IntType, 1),
     ConstantSizedType(IntType, 2),
     DictionaryType(IntType, IntType),
     DictionaryType(IntType, StringType),
     ReferenceType(IntType, EntitlementSetAccess("conj", {"E"})),
     CapabilityType(<<ReferenceType(IntType, UnauthorizedAccess)>>),
     CapabilityType(<<>>),
     FunctionType("impure", <<>>, <<>>, IntType, FALSE)}
    \cup {FunctionType("impure", <<>>, ps, ret, ctor) :
            ps \in UnifyParameterLists({IntType}),
            ret \in {IntType, StringType},
            ctor \in BOOLEAN}
    \cup {FunctionType("view", <<>>, ps, IntType, FALSE) :
            ps \in UnifyParameterLists({IntType})}

InitUnify ==
    /\ unifyType = NilType
    /\ unifyOther = NilType
    /\ typeParameters = EmptyBindings
    /\ typeParametersBefore = EmptyBindings
    /\ reported = <<>>
    /\ unified = FALSE
    /\ resolved = NilType
    /\ upc = "input"
    /\ IdleExceptUnify

CallUnify ==
    /\ upc \in {"input", "unified"}
    /\ \E t \in UnifyReceivers, other \in UnifyOthers :
          LET r == Unify(t, other,
                         [unified |-> FALSE, bindings |-> typeParameters,
                          errors |-> <<>>, panicked |-> FALSE])
          IN  /\ unifyType' = t
              /\ unifyOther' = other
              /\ typeParametersBefore' = typeParameters
              /\ typeParameters' = r.bindings
              /\ reported' = r.errors
              /\ unified' = r.unified
              /\ resolved' = NilType
              /\ upc' = IF r.panicked THEN "panicked" ELSE "unified"
    /\ UNCHANGED nonUnifyVars

CallResolve ==
    /\ upc = "unified"
    /\ resolved' = Resolve(unifyType, typeParameters)
    /\ upc' = "resolved"
    /\ UNCHANGED <<unifyType, unifyOther, typeParameters,
                   typeParametersBefore, reported, unified>>
    /\ UNCHANGED nonUnifyVars

NextUnify == CallUnify \/ CallResolve

SpecUnify == InitUnify /\ [][NextUnify]_vars

(***************************************************************************)
(* Properties of unification.                                              *)
(***************************************************************************)
RECURSIVE ContainsGeneric(_)
\* a GenericType occurs somewhere in t
ContainsGeneric(t) ==
    \/ t.tag = "Generic"
    \/ \E i \in DOMAIN t.args : ContainsGeneric(t.args[i])

RECURSIVE ReachesGeneric(_, _)
\* walking t and other in lock-step arrives at a GenericType of t
ReachesGeneric(t, other) ==
    CASE t.tag = "Generic" -> TRUE
      [] t.tag \in {"Optional", "VariableSized", "Reference"} ->
            other.tag = t.tag /\ ReachesGeneric(t.args[1], other.args[1])
      [] t.tag = "ConstantSized" ->
            /\ other.tag = t.tag
            /\ other.size = t.size
            /\ ReachesGeneric(t.args[1], other.args[1])
      [] t.tag = "Dictionary" ->
            /\ other.tag = t.tag
            /\ \E i \in 1..2 : ReachesGeneric(t.args[i], other.args[i])
      [] t.tag = "Function" ->
            /\ other.tag = t.tag
            /\ t.tparams = <<>>
            /\ other.tparams = <<>>
            /\ Len(t.args) = Len(other.args)
            /\ \E i \in DOMAIN t.args :
                  ReachesGeneric(t.args[i], other.args[i])
      [] t.tag = "Capability" ->
            /\ other.tag = t.tag
            /\ t.args # <<>>
            /\ ReachesGeneric(t.args[1],
                   IF other.args = <<>> THEN NilType ELSE other.args[1])
      [] OTHER -> FALSE

\* C11: in every Unify call on the shared binding map, a type parameter
\* that was bound before the call keeps its binding; every reported
\* TypeParameterTypeMismatchError names a binding and an observed type that
\* is not Equal to it; observing a type for a bound parameter reports the
\* mismatch when the type is not Equal to the binding and nothing when it
\* is; and a parameter observed twice in one call is bound by its first
\* observation.
C11_BoundAtMostOnce ==
    upc = "unified" =>
        /\ \A p \in TypeParameterPtrs :
              typeParametersBefore[p] # Unbound =>
                  typeParameters[p] = typeParametersBefore[p]
        /\ \A i \in DOMAIN reported :
              reported[i].kind = "TypeParameterTypeMismatchError" =>
                  /\ typeParameters[reported[i].typeParameter]
                        = reported[i].expectedType
                  /\ ~Equal(reported[i].actualType, reported[i].expectedType)
        /\ \A p \in TypeParameterPtrs :
              (unifyType = GenericType(p)
               /\ typeParametersBefore[p] # Unbound) =>
                  reported =
                      IF Equal(unifyOther, typeParametersBefore[p])
                      THEN <<>>
                      ELSE <<TypeParameterTypeMismatchError(
                                 p, typeParametersBefore[p], unifyOther)>>
        /\ (/\ unifyType = DictionaryType(GenericType("T"), GenericType("T"))
            /\ unifyOther.tag = "Dictionary"
            /\ typeParametersBefore["T"] = Unbound) =>
                /\ typeParameters["T"] = unifyOther.args[1]
                /\ reported =
                      IF Equal(unifyOther.args[2], unifyOther.args[1])
                      THEN <<>>
                      ELSE <<TypeParameterTypeMismatchError(
                                 "T", unifyOther.args[1], unifyOther.args[2])>>

C11_Witness ==
    /\ upc = "unified"
    /\ unifyType = GenericType("T")
    /\ typeParametersBefore["T"] = IntType
    /\ unifyOther = StringType
    /\ typeParameters["T"] = IntType
    /\ reported = <<TypeParameterTypeMismatchError("T", IntType, StringType)>>

\* C12: the boolean returned by Unify is true exactly when the lock-step
\* walk of the two types reached a GenericType, whatever errors were
\* reported; it is false when no generic type occurs in either type.
C12_UnifyResult ==
    upc = "unified" =>
        /\ unified <=> ReachesGeneric(unifyType, unifyOther)
        /\ (~ContainsGeneric(unifyType) /\ ~ContainsGeneric(unifyOther)) =>
              ~unified

C12_Witness ==
    /\ upc = "unified"
    /\ unifyType \in {FunctionType("view", <<>>, ps, IntType, FALSE) :
                         ps \in UnifyParameterLists({GenericType("T")})}
    /\ unifyOther.tag = "Function"
    /\ typeParametersBefore["T"] = StringType
    /\ reported # <<>>
    /\ unified

RECURSIVE Substitute(_, _)
\* t with every GenericType replaced by the type sigma gives its parameter
Substitute(t, sigma) ==
    IF t.tag = "Generic"
    THEN sigma[t.name]
    ELSE [t EXCEPT !.args = [i \in DOMAIN t.args |->
                                Substitute(t.args[i], sigma)]]

\* the types a type parameter stands for in the instances of a receiver
TypeArgumentTypes ==
    {IntType, StringType, ReferenceType(IntType, UnauthorizedAccess)}

\* other has the structural shape of t: it is t with a generic-free type in
\* the place of every type parameter
SameShape(t, other) ==
    \E sigma \in [TypeParameterPtrs -> TypeArgumentTypes] :
        Substitute(t, sigma) = other

\* C13: after P.Unify(C) on the empty binding map, for a receiver P that
\* contains generic types and a generic-free C of the shape of P,
\* P.Resolve of the bindings is a type Equal to C.
C13_RoundTrip ==
    (/\ upc = "resolved"
     /\ typeParametersBefore = EmptyBindings
     /\ ContainsGeneric(unifyType)
     /\ ~ContainsGeneric(unifyOther)
     /\ SameShape(unifyType, unifyOther)) =>
        /\ resolved # NilType
        /\ Equal(resolved, unifyOther)

(***************************************************************************)
(* Container types and cached identifiers of composite and interface       *)
(* types.  S and R are composite types, SI is an interface type.  A type   *)
(* is nested under its own Identifier, and identifiers are unique, so      *)
(* NestedTypes is the set of the types it holds.  Containment is the       *)
(* lexical nesting of declarations: no call makes a type its own           *)
(* container or nested type, directly or through other types.              *)
(***************************************************************************)
Identifier == [t \in NominalPtrs |-> t]

NominalIsInterface == [t \in NominalPtrs |-> t = "SI"]

\* Location of a type ("" is nil)
NominalLocation == [t \in NominalPtrs |-> IF t = "R" THEN "" ELSE "A.01"]

\* Location.TypeID(nil, identifier)
LocationTypeID(location, qualified) == <<location>> \o qualified

RECURSIVE containerTypeNames(_)
\* the identifiers of typ and of its containers, outermost first
containerTypeNames(typ) ==
    IF typ = ""
    THEN <<>>
    ELSE containerTypeNames(containerType[typ]) \o <<Identifier[typ]>>

qualifiedIdentifier(identifier, container) ==
    containerTypeNames(container) \o <<identifier>>

RECURSIVE checkIdentifiersCached(_)

\* faulty variant: the nested types are not checked
checkIdentifiersCached_OwnOnly(t) ==
    cachedIdentifiers[t].cached

\* TRUE when checkIdentifiersCached panics
checkIdentifiersCached(t) ==
    \/ cachedIdentifiers[t].cached
    \/ \E n \in nestedTypes[t] : checkIdentifiersCached(n)

\* faulty variant: the container type is assigned before the check
SetContainerType_AssignsFirst(t, container) ==
    [panicked |-> checkIdentifiersCached(t),
     containerType |-> [containerType EXCEPT ![t] = container]]

\* the outcome of t.SetContainerType(container)
SetContainerType(t, container) ==
    IF checkIdentifiersCached(t)
    THEN [panicked |-> TRUE, containerType |-> containerType]
    ELSE [panicked |-> FALSE,
          containerType |-> [containerType EXCEPT ![t] = container]]

\* the cachedIdentifiers of t after t.initializeIdentifiers()
initializeIdentifiers(t) ==
    IF cachedIdentifiers[t].cached
    THEN cachedIdentifiers[t]
    ELSE LET identifier ==
                 qualifiedIdentifier(Identifier[t], containerType[t])
         IN  [cached |-> TRUE,
              TypeID |-> IF NominalLocation[t] = ""
                         THEN identifier
                         ELSE LocationTypeID(NominalLocation[t], identifier),
              QualifiedIdentifier |-> identifier]

RECURSIVE Containers(_)
\* the containers of t, direct and indirect
Containers(t) ==
    IF containerType[t] = ""
    THEN {}
    ELSE {containerType[t]} \cup Containers(containerType[t])

RECURSIVE NestedBelow(_)
\* the types t holds in NestedTypes, directly and through nested types
NestedBelow(t) ==
    nestedTypes[t] \cup UNION {NestedBelow(n) : n \in nestedTypes[t]}

InitIdent ==
    /\ containerType = [t \in NominalPtrs |-> ""]
    /\ nestedTypes = [t \in NominalPtrs |-> {}]
    /\ cachedIdentifiers = [t \in NominalPtrs |-> NoIdentifiers]
    /\ lastCall = [op |-> "none", type |-> "", container |-> "",
                   panicked |-> FALSE, before |-> ""]
    /\ ipc = "running"
    /\ IdleExceptIdent

CallSetContainerType ==
    /\ ipc = "running"
    /\ \E t \in NominalPtrs, container \in NominalPtrs :
          LET r == SetContainerType(t, container)
          IN  /\ container # t
              /\ t \notin Containers(container)
              /\ containerType' = r.containerType
              /\ ipc' = IF r.panicked THEN "panicked" ELSE "running"
              /\ lastCall' = [op |-> "SetContainerType", type |-> t,
                              container |-> container,
                              panicked |-> r.panicked,
                              before |-> containerType[t]]
    /\ UNCHANGED <<nestedTypes, cachedIdentifiers>>
    /\ UNCHANGED nonIdentVars

\* t.NestedTypes.Set(name, nestedType) followed by
\* nestedType.SetContainerType(t)
setNestedType(t, nestedType, call) ==
    LET r == SetContainerType(nestedType, t)
    IN  /\ nestedType # t
        /\ nestedType \notin Containers(t)
        /\ t \notin NestedBelow(nestedType)
        /\ nestedTypes' = [nestedTypes EXCEPT ![t] = @ \cup {nestedType}]
        /\ containerType' = r.containerType
        /\ ipc' = IF r.panicked THEN "panicked" ELSE "running"
        /\ lastCall' = [op |-> call, type |-> nestedType, container |-> t,
                        panicked |-> r.panicked,
                        before |-> containerType[nestedType]]

CallSetNestedType ==
    /\ ipc = "running"
    /\ \E t \in NominalPtrs, nestedType \in NominalPtrs :
          /\ ~NominalIsInterface[t]
          /\ setNestedType(t, nestedType, "SetNestedType")
    /\ UNCHANGED cachedIdentifiers
    /\ UNCHANGED nonIdentVars

\* the registration of a nested type in an interface type
declareInterfaceType ==
    /\ ipc = "running"
    /\ \E t \in NominalPtrs, nestedType \in NominalPtrs :
          /\ NominalIsInterface[t]
          /\ setNestedType(t, nestedType, "declareInterfaceType")
    /\ UNCHANGED cachedIdentifiers
    /\ UNCHANGED nonIdentVars

CallID ==
    /\ ipc = "running"
    /\ \E t \in NominalPtrs :
          /\ cachedIdentifiers' =
                [cachedIdentifiers EXCEPT ![t] = initializeIdentifiers(t)]
          /\ lastCall' = [op |-> "ID", type |-> t, container |-> "",
                          panicked |-> FALSE, before |-> containerType[t]]
    /\ UNCHANGED <<containerType, nestedTypes, ipc>>
    /\ UNCHANGED nonIdentVars

CallQualifiedIdentifier ==
    /\ ipc = "running"
    /\ \E t \in NominalPtrs :
          /\ cachedIdentifiers' =
                [cachedIdentifiers EXCEPT ![t] = initializeIdentifiers(t)]
          /\ lastCall' = [op |-> "QualifiedIdentifier", type |-> t,
                          container |-> "", panicked |-> FALSE,
                          before |-> containerType[t]]
    /\ UNCHANGED <<containerType, nestedTypes, ipc>>
    /\ UNCHANGED nonIdentVars

NextIdent ==
    \/ CallSetContainerType
    \/ CallSetNestedType
    \/ declareInterfaceType
    \/ CallID
    \/ CallQualifiedIdentifier

SpecIdent == InitIdent /\ [][NextIdent]_vars

(***************************************************************************)
(* Properties of container types and cached identifiers.                   *)
(***************************************************************************)
\* the last call was an attempt to set the container type of lastCall.type
SetsContainer ==
    lastCall.op \in {"SetContainerType", "SetNestedType",
                     "declareInterfaceType"}

\* u is t or is held by t through any number of NestedTypes
HoldsTransitively(t, u) ==
    \/ u = t
    \/ \E path \in SeqsUpTo(NominalPtrs, Cardinality(NominalPtrs)) :
          /\ path # <<>>
          /\ path[1] \in nestedTypes[t]
          /\ path[Len(path)] = u
          /\ \A i \in 1..(Len(path) - 1) :
                path[i + 1] \in nestedTypes[path[i]]

\* the identifiers of t, or of a type t holds, are cached
IdentifiersCachedWithin(t) ==
    \E u \in NominalPtrs :
        cachedIdentifiers[u].cached /\ HoldsTransitively(t, u)

\* the identifiers derived from the current container chain of t
DerivedIdentifiers(t) ==
    LET identifier == qualifiedIdentifier(Identifier[t], containerType[t])
    IN  [cached |-> TRUE,
         TypeID |-> IF NominalLocation[t] = ""
                    THEN identifier
                    ELSE LocationTypeID(NominalLocation[t], identifier),
         QualifiedIdentifier |-> identifier]

\* an attempt to set a container type panics exactly when the identifiers
\* of the type, or of a type it transitively holds as nested, are cached
PanicsWhenCached ==
    SetsContainer =>
        (lastCall.panicked <=> IdentifiersCachedWithin(lastCall.type))

\* t and each of its containers is held in the NestedTypes of its own
\* container
ChainRegistered(t) ==
    \A u \in {t} \cup Containers(t) :
        containerType[u] # "" => u \in nestedTypes[containerType[u]]

\* C14 (as stated): an attempt to set the container type of a type whose
\* identifiers are cached, or of a type that transitively holds such a type
\* as nested, panics; and the cached identifiers of every type are the ones
\* derived from its current container chain.
C14_CachedIdentifiersCurrent ==
    /\ PanicsWhenCached
    /\ \A t \in NominalPtrs :
          cachedIdentifiers[t].cached =>
              cachedIdentifiers[t] = DerivedIdentifiers(t)

\* C14 (amended): an attempt to set the container type of a type whose
\* identifiers are cached, or of a type that transitively holds such a type
\* as nested, panics; and while no call has panicked, the cached identifiers
\* of a type are the ones derived from its current container chain whenever
\* the type and each of its containers is held in the NestedTypes of its
\* container.
C14_CachedIdentifiersRegistered ==
    /\ PanicsWhenCached
    /\ \A t \in NominalPtrs :
          (/\ ipc = "running"
           /\ cachedIdentifiers[t].cached
           /\ ChainRegistered(t)) =>
              cachedIdentifiers[t] = DerivedIdentifiers(t)

C14_Witness ==
    /\ lastCall.op = "SetContainerType"
    /\ lastCall.panicked
    /\ ~cachedIdentifiers[lastCall.type].cached
    /\ \E u \in nestedTypes[lastCall.type] :
          /\ cachedIdentifiers[u].cached
          /\ ChainRegistered(u)
          /\ Len(cachedIdentifiers[u].QualifiedIdentifier) = 2
          /\ cachedIdentifiers[u] = DerivedIdentifiers(u)

InvalidType == SimpleType("Invalid")

RECURSIVE IsInvalidType(_)
IsInvalidType(t) ==
    CASE t.tag = "Simple" -> t = InvalidType
      [] t.tag \in {"Optional", "VariableSized", "ConstantSized",
                    "Reference"} -> IsInvalidType(t.args[1])
      [] t.tag = "Dictionary" ->
            IsInvalidType(t.args[1]) \/ IsInvalidType(t.args[2])
      [] t.tag = "Function" ->
            \/ \E i \in DOMAIN t.tparams :
                  /\ TypeParameterTypeBound[t.tparams[i]] # NilType
                  /\ IsInvalidType(TypeParameterTypeBound[t.tparams[i]])
            \/ \E i \in DOMAIN t.args : IsInvalidType(t.args[i])
      [] t.tag = "Restricted" -> IsInvalidType(t.args[1])
      [] t.tag = "Capability" ->
            t.args # <<>> /\ IsInvalidType(t.args[1])
      [] t.tag \in {"Numeric", "FixedPoint", "Composite", "Interface",
                    "Generic"} -> FALSE

NewTypeAnnotation(ty) == [Type |-> ty, IsResource |-> IsResourceType(ty)]

\* the first state of the sequence that is not valid
firstNotValid(states) ==
    IF \A i \in DOMAIN states : states[i] = "Valid"
    THEN "Valid"
    ELSE states[CHOOSE i \in DOMAIN states :
                    /\ states[i] # "Valid"
                    /\ \A j \in 1..(i - 1) : states[j] = "Valid"]

RECURSIVE TypeTypeAnnotationState(_)

\* faulty variant: a flag set on a non-resource type is accepted
TypeAnnotationState_NoInvalidCase(a) ==
    IF IsInvalidType(a.Type)
    THEN "Valid"
    ELSE LET innerState == TypeTypeAnnotationState(a.Type)
         IN  IF innerState # "Valid"
             THEN innerState
             ELSE CASE IsResourceType(a.Type) /\ ~a.IsResource ->
                           "MissingResourceAnnotation"
                    [] OTHER -> "Valid"

\* TypeAnnotation.TypeAnnotationState
TypeAnnotationState(a) ==
    IF IsInvalidType(a.Type)
    THEN "Valid"
    ELSE LET innerState == TypeTypeAnnotationState(a.Type)
         IN  IF innerState # "Valid"
             THEN innerState
             ELSE CASE IsResourceType(a.Type) /\ ~a.IsResource ->
                           "MissingResourceAnnotation"
                    [] ~IsResourceType(a.Type) /\ a.IsResource ->
                           "InvalidResourceAnnotation"
                    [] OTHER -> "Valid"

\* a nil TypeBound is dereferenced: the call panics
FunctionTypeAnnotationState(t) ==
    firstNotValid(
        [i \in DOMAIN t.tparams |->
            IF TypeParameterTypeBound[t.tparams[i]] = NilType
            THEN "panic"
            ELSE TypeTypeAnnotationState(
                     TypeParameterTypeBound[t.tparams[i]])]
        \o [i \in DOMAIN t.args |->
               TypeAnnotationState(NewTypeAnnotation(t.args[i]))])

\* Type.TypeAnnotationState of every variant
TypeTypeAnnotationState(t) ==
    CASE t.tag \in {"Optional", "VariableSized", "ConstantSized"} ->
            TypeTypeAnnotationState(t.args[1])
      [] t.tag = "Dictionary" ->
            firstNotValid(<<TypeTypeAnnotationState(t.args[1]),
                            TypeTypeAnnotationState(t.args[2])>>)
      [] t.tag = "Function" -> FunctionTypeAnnotationState(t)
      [] t.tag = "Composite" ->
            IF CompositeKind[t.name] = "attachment"
            THEN "DirectAttachmentTypeAnnotation"
            ELSE "Valid"
      [] t.tag = "Reference" ->
            IF TypeTypeAnnotationState(t.args[1])
                   = "DirectEntitlementTypeAnnotation"
            THEN "DirectEntitlementTypeAnnotation"
            ELSE "Valid"
      [] t.tag = "Capability" ->
            IF t.args = <<>>
            THEN "Valid"
            ELSE TypeTypeAnnotationState(t.args[1])
      [] t.tag \in {"Simple", "Numeric", "FixedPoint", "Interface",
                    "Generic", "Restricted"} -> "Valid"

\* the errors Checker.checkResourceAnnotation reports
checkResourceAnnotation(ty, isResourceMove) ==
    IF IsInvalidType(ty)
    THEN <<>>
    ELSE IF IsResourceType(ty)
         THEN IF ~isResourceMove
              THEN <<"MissingResourceAnnotationError">>
              ELSE <<>>
         ELSE IF isResourceMove
              THEN <<"InvalidResourceAnnotationError">>
              ELSE <<>>

(***************************************************************************)
(* The state machine of type annotations: an annotation is given, and its  *)
(* state is asked for or the checker checks its resource annotation.       *)
(***************************************************************************)
AnnotatedTypes ==
    Types \cup {InvalidType, OptionalType(InvalidType),
                OptionalType(CompositeType("A")),
                DictionaryType(StringType, CompositeType("A")),
                ReferenceType(CompositeType("A"), UnauthorizedAccess)}

InitAnnot ==
    /\ annotation \in [Type : AnnotatedTypes, IsResource : BOOLEAN]
    /\ annotationCall = "input"
    /\ annotationState = ""
    /\ annotationErrors = <<>>
    /\ IdleExceptAnnot

CallTypeAnnotationState ==
    /\ annotationCall = "input"
    /\ annotationCall' = "TypeAnnotationState"
    /\ annotationState' = TypeAnnotationState(annotation)
    /\ UNCHANGED <<annotation, annotationErrors>>
    /\ UNCHANGED nonAnnotVars

checkTypeAnnotation ==
    /\ annotationCall = "input"
    /\ annotationCall' = "checkTypeAnnotation"
    /\ annotationErrors' =
          checkResourceAnnotation(annotation.Type, annotation.IsResource)
    /\ UNCHANGED <<annotation, annotationState>>
    /\ UNCHANGED nonAnnotVars

NextAnnot == CallTypeAnnotationState \/ checkTypeAnnotation

SpecAnnot == InitAnnot /\ [][NextAnnot]_vars

\* C16: for an annotation of a type that is not invalid and whose own
\* annotation state is valid, the state is Valid exactly when the IsResource
\* flag equals IsResourceType(), MissingResourceAnnotation when the type is
\* a resource and the flag is unset, InvalidResourceAnnotation when the flag
\* is set on a non-resource; the checker reports the matching error for
\* every type that is not invalid; neither call changes the annotation.
C16_ResourceAnnotation ==
    /\ [](LET ty == annotation.Type
              flag == annotation.IsResource
          IN  /\ (/\ annotationCall = "TypeAnnotationState"
                  /\ ~IsInvalidType(ty)
                  /\ TypeTypeAnnotationState(ty) = "Valid") =>
                      /\ annotationState = "Valid"
                            <=> flag = IsResourceType(ty)
                      /\ (IsResourceType(ty) /\ ~flag) =>
                            annotationState = "MissingResourceAnnotation"
                      /\ (~IsResourceType(ty) /\ flag) =>
                            annotationState = "InvalidResourceAnnotation"
              /\ (annotationCall = "checkTypeAnnotation"
                  /\ ~IsInvalidType(ty)) =>
                      /\ (IsResourceType(ty) /\ ~flag) <=>
                            annotationErrors
                                = <<"MissingResourceAnnotationError">>
                      /\ (~IsResourceType(ty) /\ flag) <=>
                            annotationErrors
                                = <<"InvalidResourceAnnotationError">>
                      /\ flag = IsResourceType(ty) <=>
                            annotationErrors = <<>>)
    /\ [][annotation' = annotation]_vars

C16_Witness ==
    /\ annotationCall = "TypeAnnotationState"
    /\ annotation.Type = OptionalType(CompositeType("R"))
    /\ ~annotation.IsResource
    /\ annotationState = "MissingResourceAnnotation"

(***************************************************************************)
(* Lazy member resolvers.  GetMembers runs the initialization of the       *)
(* type's member-resolver map under memberResolversOnce and returns the    *)
(* field memberResolvers.  sync.Once is a done flag read without the mutex *)
(* on the fast path, and a mutex under which done is read again, the body  *)
(* is run, done is stored and the mutex is released.  A map is the set of  *)
(* its resolvers, [name, declaredBy], together with the caller that built  *)
(* it (the identity of the map object).  A caller is a goroutine; its call *)
(* stack holds one frame per GetMembers call in progress, the last frame   *)
(* being the running one.                                                  *)
(***************************************************************************)
MemberResolver(name, t) == [name |-> name, declaredBy |-> t]

\* the Members of the composite and the interface, and the map literal of
\* the optional type
MembersMapAsResolvers ==
    [t \in MemberTypes |->
        CASE t = "S" -> {MemberResolver("f", "S")}
          [] t = "SI" -> {MemberResolver("f", "SI"), MemberResolver("g", "SI")}
          [] t = "O" -> {MemberResolver("map", "O")}]

\* the interfaces whose members a type's initialization merges
MemberConformances ==
    [t \in MemberTypes |->
        IF t = "S"
        THEN ExplicitInterfaceConformanceSet(CompositeType("S"))
        ELSE {}]

BuiltinMemberNames == {"isInstance", "getType"}

withBuiltinMembers(t, members) ==
    {r \in members : r.name \notin BuiltinMemberNames}
    \cup {MemberResolver(n, t) : n \in BuiltinMemberNames}

\* members, and the resolvers of other under names members does not have
mergeResolvers(members, other) ==
    members \cup {r \in other : \A m \in members : m.name # r.name}

Frame(t, at, members, pending, path) ==
    [type |-> t, pc |-> at, members |-> members, pending |-> pending,
     path |-> path]

Top(c) == callStack[c][Len(callStack[c])]

\* the call stack of c with its running frame replaced
WithTop(c, frame) ==
    [callStack EXCEPT ![c] = [@ EXCEPT ![Len(@)] = frame]]

Running(c, at) == callStack[c] # <<>> /\ Top(c).pc = at

\* faulty variant: the mutex of the Once excludes nobody
lockAvailable_NoMutualExclusion(t) == TRUE

\* Mutex.Lock returns
lockAvailable(t) == onceMutex[t] = 0

InitMembers ==
    /\ callStack = [c \in Callers |-> <<>>]
    /\ onceDone = [t \in MemberTypes |-> FALSE]
    /\ onceMutex = [t \in MemberTypes |-> 0]
    /\ memberResolvers = [t \in MemberTypes |-> NoMap]
    /\ bodyRuns = [t \in MemberTypes |-> 0]
    /\ returned = [c \in Callers |->
                      [type |-> "", path |-> "", map |-> NoMap]]
    /\ IdleExceptMembers

\* a caller that has made no call yet calls t.GetMembers()
GetMembers(c) ==
    /\ callStack[c] = <<>>
    /\ returned[c].type = ""
    /\ \E t \in MemberTypes :
          callStack' = [callStack EXCEPT
                           ![c] = <<Frame(t, "Do", {}, {}, "")>>]
    /\ UNCHANGED <<onceDone, onceMutex, memberResolvers, bodyRuns, returned>>

\* Once.Do: the fast path
OnceDo(c) ==
    /\ Running(c, "Do")
    /\ callStack' =
          WithTop(c, IF onceDone[Top(c).type]
                     THEN [Top(c) EXCEPT !.pc = "return", !.path = "fast"]
                     ELSE [Top(c) EXCEPT !.pc = "lock"])
    /\ UNCHANGED <<onceDone, onceMutex, memberResolvers, bodyRuns, returned>>

\* Once.doSlow: the mutex is taken and done is read again
OnceDoSlow(c) ==
    /\ Running(c, "lock")
    /\ lockAvailable(Top(c).type)
    /\ onceMutex' = [onceMutex EXCEPT ![Top(c).type] = c]
    /\ IF onceDone[Top(c).type]
       THEN /\ callStack' = WithTop(c, [Top(c) EXCEPT !.pc = "unlock",
                                                      !.path = "waited"])
            /\ UNCHANGED bodyRuns
       ELSE /\ callStack' = WithTop(c, [Top(c) EXCEPT !.pc = "members",
                                                      !.path = "ran"])
            /\ bodyRuns' = [bodyRuns EXCEPT ![Top(c).type] = @ + 1]
    /\ UNCHANGED <<onceDone, memberResolvers, returned>>

\* the body: the type's own members become a local map
BuildMembers(c) ==
    /\ Running(c, "members")
    /\ callStack' =
          WithTop(c, [Top(c) EXCEPT
                         !.pc = "conformances",
                         !.members = MembersMapAsResolvers[Top(c).type],
                         !.pending = MemberConformances[Top(c).type]])
    /\ UNCHANGED <<onceDone, onceMutex, memberResolvers, bodyRuns, returned>>

\* the body: conformance.GetMembers() is called for the next conformance
VisitConformance(c) ==
    /\ Running(c, "conformances")
    /\ \E conformance \in Top(c).pending :
          callStack' =
              [callStack EXCEPT ![c] =
                  Append([@ EXCEPT ![Len(@)] =
                             [Top(c) EXCEPT !.pending = @ \ {conformance}]],
                         Frame(conformance, "Do", {}, {}, ""))]
    /\ UNCHANGED <<onceDone, onceMutex, memberResolvers, bodyRuns, returned>>

\* the body: withBuiltinMembers completes the local map
AddBuiltinMembers(c) ==
    /\ Running(c, "conformances")
    /\ Top(c).pending = {}
    /\ callStack' =
          WithTop(c, [Top(c) EXCEPT
                         !.pc = "assign",
                         !.members = withBuiltinMembers(Top(c).type, @)])
    /\ UNCHANGED <<onceDone, onceMutex, memberResolvers, bodyRuns, returned>>

\* the body: the local map is assigned to t.memberResolvers
AssignMemberResolvers(c) ==
    /\ Running(c, "assign")
    /\ memberResolvers' =
          [memberResolvers EXCEPT ![Top(c).type] =
              [built |-> TRUE, builder |-> c, resolvers |-> Top(c).members]]
    /\ callStack' = WithTop(c, [Top(c) EXCEPT !.pc = "store"])
    /\ UNCHANGED <<onceDone, onceMutex, bodyRuns, returned>>

\* Once.doSlow: done is stored after the body has returned
StoreDone(c) ==
    /\ Running(c, "store")
    /\ onceDone' = [onceDone EXCEPT ![Top(c).type] = TRUE]
    /\ callStack' = WithTop(c, [Top(c) EXCEPT !.pc = "unlock"])
    /\ UNCHANGED <<onceMutex, memberResolvers, bodyRuns, returned>>

\* Once.doSlow: the mutex is released
OnceUnlock(c) ==
    /\ Running(c, "unlock")
    /\ onceMutex' = [onceMutex EXCEPT ![Top(c).type] = 0]
    /\ callStack' = WithTop(c, [Top(c) EXCEPT !.pc = "return"])
    /\ UNCHANGED <<onceDone, memberResolvers, bodyRuns, returned>>

\* return t.memberResolvers: to the caller, or into the loop over the
\* conformances of the calling initialization
ReturnMembers(c) ==
    /\ Running(c, "return")
    /\ LET map == memberResolvers[Top(c).type]
           rest == SubSeq(callStack[c], 1, Len(callStack[c]) - 1)
       IN  IF rest = <<>>
           THEN /\ callStack' = [callStack EXCEPT ![c] = <<>>]
                /\ returned' = [returned EXCEPT ![c] =
                                   [type |-> Top(c).type,
                                    path |-> Top(c).path,
                                    map |-> map]]
           ELSE /\ callStack' =
                      [callStack EXCEPT ![c] =
                          [rest EXCEPT ![Len(rest)] =
                              [@ EXCEPT !.members =
                                  mergeResolvers(@, map.resolvers)]]]
                /\ UNCHANGED returned
    /\ UNCHANGED <<onceDone, onceMutex, memberResolvers, bodyRuns>>

NextMembers ==
    /\ \E c \in Callers :
          \/ GetMembers(c)
          \/ OnceDo(c)
          \/ OnceDoSlow(c)
          \/ BuildMembers(c)
          \/ VisitConformance(c)
          \/ AddBuiltinMembers(c)
          \/ AssignMemberResolvers(c)
          \/ StoreDone(c)
          \/ OnceUnlock(c)
          \/ ReturnMembers(c)
    /\ UNCHANGED nonMembersVars

SpecMembers == InitMembers /\ [][NextMembers]_vars

\* the completed member-resolver map of a type
CompleteMembers(t) ==
    LET own(u) == withBuiltinMembers(u, MembersMapAsResolvers[u])
    IN  IF t = "S"
        THEN withBuiltinMembers(
                 "S", {MemberResolver("f", "S"), MemberResolver("g", "SI")})
        ELSE own(t)

CyclicConformanceError(interfaceType) ==
    [kind |-> "CyclicConformanceError", InterfaceType |-> interfaceType,
     ConflictingInterfaceType |-> ""]

InterfaceMemberConflictError(interfaceType, conflictingInterfaceType) ==
    [kind |-> "InterfaceMemberConflictError",
     InterfaceType |-> interfaceType,
     ConflictingInterfaceType |-> conflictingInterfaceType]

\* Checker.memberSatisfied, for two members of interfaces: the signatures
\* (type, purity, argument labels) are identical
memberSatisfied(interfaceType, interfaceMember, conflictingMember) ==
    interfaceMember.signature = conflictingMember.signature

NoConflict == [isDuplicate |-> FALSE, errors |-> {}]

\* the default implementation of an inherited member may be overridden
\* by an empty declaration
checkDuplicateInterfaceMember_OverridesDefault(interfaceType, interfaceMember, conflictingInterfaceType, conflictingMember, isConflictingMemberInherited) ==
    LET reportMemberConflictError ==
            [isDuplicate |-> TRUE,
             errors |-> {InterfaceMemberConflictError(
                             interfaceType, conflictingInterfaceType)}]
    IN  IF ~memberSatisfied(interfaceType, interfaceMember,
                            conflictingMember)
        THEN reportMemberConflictError
        ELSE IF /\ interfaceMember.HasImplementation
                /\ conflictingMember.HasImplementation
        THEN reportMemberConflictError
        ELSE NoConflict

checkDuplicateInterfaceMember(interfaceType, interfaceMember, conflictingInterfaceType, conflictingMember, isConflictingMemberInherited) ==
    LET reportMemberConflictError ==
            [isDuplicate |-> TRUE,
             errors |-> {InterfaceMemberConflictError(
                             interfaceType, conflictingInterfaceType)}]
    IN  IF ~memberSatisfied(interfaceType, interfaceMember,
                            conflictingMember)
        THEN reportMemberConflictError
        ELSE IF /\ interfaceMember.HasImplementation
                /\ conflictingMember.HasImplementation
        THEN reportMemberConflictError
        ELSE IF /\ isConflictingMemberInherited
                /\ conflictingMember.HasImplementation
                /\ ~interfaceMember.HasConditions
        THEN reportMemberConflictError
        ELSE NoConflict

\* the loop of checkInterfaceConformance over the members inherited from
\* sibling conformances: isDuplicate is the result of the last comparison
RECURSIVE checkSiblingMembers(_, _, _, _)
checkSiblingMembers(conformance, conformanceMember, inheritedMembers, acc) ==
    IF inheritedMembers = <<>> THEN acc
    ELSE LET conflictingMember == Head(inheritedMembers)
             conflictingInterface == conflictingMember.ContainerType
             check == checkDuplicateInterfaceMember(
                          conformance, conformanceMember,
                          conflictingInterface, conflictingMember, FALSE)
         IN  checkSiblingMembers(
                 conformance, conformanceMember, Tail(inheritedMembers),
                 [isDuplicate |-> check.isDuplicate,
                  errors |-> acc.errors \cup check.errors])

\* the errors reported for one conformance, and inheritedMembersByName["foo"]
\* after it
checkInterfaceConformance(interfaceType, conformance, inheritedMembers) ==
    LET conformanceMember == Members[conformance]
        siblings == checkSiblingMembers(conformance, conformanceMember,
                                        inheritedMembers, NoConflict)
        declarationMember == Members[interfaceType]
        own == IF declarationMember.present /\ ~siblings.isDuplicate
               THEN checkDuplicateInterfaceMember(
                        interfaceType, declarationMember,
                        conformance, conformanceMember, TRUE)
               ELSE NoConflict
        isDuplicate == siblings.isDuplicate \/ own.isDuplicate
    IN  IF ~conformanceMember.present
        THEN [errors |-> {}, inheritedMembers |-> inheritedMembers]
        ELSE [errors |-> siblings.errors \cup own.errors,
              inheritedMembers |->
                  IF isDuplicate THEN inheritedMembers
                  ELSE Append(inheritedMembers, conformanceMember)]

\* the distinct conformances of a list and of their own conformances,
\* depth first, every interface once
RECURSIVE distinctConformances(_, _)
distinctConformances(conformances, seenConformances) ==
    IF conformances = <<>>
    THEN [collected |-> <<>>, seen |-> seenConformances]
    ELSE LET conformance == Head(conformances)
         IN  IF conformance \in seenConformances
             THEN distinctConformances(Tail(conformances), seenConformances)
             ELSE LET nested == distinctConformances(
                                    interfaceConformances[conformance],
                                    seenConformances \cup {conformance})
                      rest == distinctConformances(Tail(conformances),
                                                   nested.seen)
                  IN  [collected |-> <<conformance>> \o nested.collected
                                        \o rest.collected,
                       seen |-> rest.seen]

EffectiveInterfaceConformances(t) ==
    distinctConformances(interfaceConformances[t], {}).collected

NoVisit == [errors |-> {}, inherited |-> <<>>, checked |-> <<>>]

\* a conformance to the interface itself is passed over in silence
visitConformance_NoCyclicCheck(interfaceType, conformance, visit) ==
    LET check == checkInterfaceConformance(interfaceType, conformance,
                                           visit.inherited)
    IN  [errors |-> visit.errors \cup check.errors,
         inherited |-> check.inheritedMembers,
         checked |-> Append(visit.checked, conformance)]

\* one round of the loop of VisitInterfaceDeclaration over the effective
\* conformances
visitConformance(interfaceType, conformance, visit) ==
    LET cyclic == IF conformance = interfaceType
                  THEN {CyclicConformanceError(interfaceType)}
                  ELSE {}
        check == checkInterfaceConformance(interfaceType, conformance,
                                           visit.inherited)
    IN  [errors |-> visit.errors \cup cyclic \cup check.errors,
         inherited |-> check.inheritedMembers,
         checked |-> Append(visit.checked, conformance)]

RECURSIVE visitConformances(_, _, _)
visitConformances(interfaceType, conformances, visit) ==
    IF conformances = <<>> THEN visit
    ELSE visitConformances(
             interfaceType, Tail(conformances),
             visitConformance(interfaceType, Head(conformances), visit))

\* the declarations of a program of three interfaces
ThreeDeclarations == {"I", "J", "K"}

\* the conformance lists a program is checked with: none, a chain, two
\* siblings, an interface listing itself, a cycle of two, a cycle of three,
\* and a cycle the first interface only leads into
ConformanceLists ==
    { [I |-> <<>>, J |-> <<>>, K |-> <<>>, L |-> <<>>],
      [I |-> <<"J">>, J |-> <<"K">>, K |-> <<>>, L |-> <<>>],
      [I |-> <<"J", "K">>, J |-> <<>>, K |-> <<>>, L |-> <<>>],
      [I |-> <<"I", "J">>, J |-> <<>>, K |-> <<>>, L |-> <<>>],
      [I |-> <<"J">>, J |-> <<"I", "K">>, K |-> <<>>, L |-> <<>>],
      [I |-> <<"J">>, J |-> <<"K">>, K |-> <<"I">>, L |-> <<>>],
      [I |-> <<"J">>, J |-> <<"K">>, K |-> <<"J">>, L |-> <<>>] }

\* what a declaration spells out for `foo`: nothing, a declaration only,
\* conditions only, or a default implementation
DeclaredMembers ==
    { NoMember,
      Member("s1", FALSE, FALSE, ""),
      Member("s1", FALSE, TRUE, ""),
      Member("s1", TRUE, FALSE, "") }

InitDecl ==
    /\ interfaceConformances \in ConformanceLists
    /\ declarationMembers \in
           {members \in [InterfaceDeclarations -> DeclaredMembers] :
                \A d \in InterfaceDeclarations \ ThreeDeclarations :
                    members[d] = NoMember}
    /\ InterfaceDeclarationTypes = [d \in InterfaceDeclarations |-> "nil"]
    /\ Members = [d \in InterfaceDeclarations |-> NoMember]
    /\ declErrors = {}
    /\ fatal = FALSE
    /\ declCall = NoDeclCall
    /\ phasesDone = [d \in InterfaceDeclarations |-> {}]
    /\ IdleExceptDecl

\* a phase is run once for a declaration, and none after a panic
MayRun(phase, d) == ~fatal /\ phase \notin phasesDone[d]

\* what every phase leaves behind: the call made, with the conformances on
\* which checkInterfaceConformance was called
Ran(phase, d, checked) ==
    /\ declCall' = [op |-> phase, declaration |-> d,
                    hadType |-> InterfaceDeclarationTypes[d] # "nil",
                    checked |-> checked]
    /\ phasesDone' = [phasesDone EXCEPT ![d] = @ \cup {phase}]
    /\ UNCHANGED <<interfaceConformances, declarationMembers>>
    /\ UNCHANGED nonDeclVars

\* declareInterfaceType, as far as the elaboration goes: the type is created
\* and recorded for the declaration
SetInterfaceDeclarationWithType(d) ==
    /\ MayRun("declareInterfaceType", d)
    /\ InterfaceDeclarationTypes' = [InterfaceDeclarationTypes EXCEPT ![d] = d]
    /\ Members' = [Members EXCEPT ![d] = NoMember]
    /\ UNCHANGED <<declErrors, fatal>>
    /\ Ran("declareInterfaceType", d, <<>>)

\* a declaration whose type is missing is passed over
declareInterfaceMembersAndValue_SkipsMissingType(d) ==
    /\ MayRun("declareInterfaceMembersAndValue", d)
    /\ LET interfaceType == InterfaceDeclarationTypes[d]
       IN  IF interfaceType = "nil"
           THEN UNCHANGED <<fatal, Members>>
           ELSE /\ Members' = [Members EXCEPT ![interfaceType] =
                                   [declarationMembers[d] EXCEPT
                                        !.ContainerType = interfaceType]]
                /\ UNCHANGED fatal
    /\ UNCHANGED <<InterfaceDeclarationTypes, declErrors>>
    /\ Ran("declareInterfaceMembersAndValue", d, <<>>)

declareInterfaceMembersAndValue(d) ==
    /\ MayRun("declareInterfaceMembersAndValue", d)
    /\ LET interfaceType == InterfaceDeclarationTypes[d]
       IN  IF interfaceType = "nil"
           THEN fatal' = TRUE /\ UNCHANGED Members
           ELSE /\ Members' = [Members EXCEPT ![interfaceType] =
                                   [declarationMembers[d] EXCEPT
                                        !.ContainerType = interfaceType]]
                /\ UNCHANGED fatal
    /\ UNCHANGED <<InterfaceDeclarationTypes, declErrors>>
    /\ Ran("declareInterfaceMembersAndValue", d, <<>>)

VisitInterfaceDeclaration(d) ==
    /\ MayRun("VisitInterfaceDeclaration", d)
    /\ LET interfaceType == InterfaceDeclarationTypes[d]
           visit == visitConformances(
                        interfaceType,
                        EffectiveInterfaceConformances(interfaceType),
                        NoVisit)
       IN  IF interfaceType = "nil"
           THEN /\ fatal' = TRUE
                /\ UNCHANGED declErrors
                /\ Ran("VisitInterfaceDeclaration", d, <<>>)
           ELSE /\ declErrors' = declErrors \cup visit.errors
                /\ UNCHANGED fatal
                /\ Ran("VisitInterfaceDeclaration", d, visit.checked)
    /\ UNCHANGED <<InterfaceDeclarationTypes, Members>>

NextDecl ==
    \E d \in ThreeDeclarations :
        \/ SetInterfaceDeclarationWithType(d)
        \/ declareInterfaceMembersAndValue(d)
        \/ VisitInterfaceDeclaration(d)

SpecDecl == InitDecl /\ [][NextDecl]_vars

LaterPhases == {"declareInterfaceMembersAndValue", "VisitInterfaceDeclaration"}

\* C18: the phases of an interface declaration are ordered.  A call of
\* declare-members or of visit for a declaration whose type was not
\* declared before panics, reporting no error and changing no member, and
\* no phase runs after the panic; a call of either for a declaration whose
\* type was declared before does not panic, and neither does declare-type.
C18_PhasesOrdered ==
    [][ /\ ~fatal
        /\ declCall'.op \in LaterPhases =>
               IF "declareInterfaceType" \in phasesDone[declCall'.declaration]
               THEN ~fatal'
               ELSE /\ fatal'
                    /\ declErrors' = declErrors
                    /\ Members' = Members
        /\ declCall'.op = "declareInterfaceType" => ~fatal' ]_vars

\* one declaration has gone through its three phases, and the visit of
\* another, whose type was never declared, has panicked
C18_Witness ==
    /\ fatal
    /\ declCall.op = "VisitInterfaceDeclaration"
    /\ ~declCall.hadType
    /\ \E d \in InterfaceDeclarations :
           phasesDone[d] = LaterPhases \cup {"declareInterfaceType"}

Conformances(t) ==
    {interfaceConformances[t][i] : i \in DOMAIN interfaceConformances[t]}

\* the interfaces a type lists as conformances, directly or transitively
RECURSIVE TransitiveConformancesFrom(_, _)
TransitiveConformancesFrom(S, n) ==
    IF n = 0 THEN S
    ELSE TransitiveConformancesFrom(
             S \cup UNION {Conformances(c) : c \in S}, n - 1)

TransitiveConformances(t) ==
    TransitiveConformancesFrom(Conformances(t),
                               Cardinality(InterfaceDeclarations))

\* C19: after the visit of a declared interface that lists itself, directly
\* or transitively, as a conformance, a CyclicConformanceError for that
\* interface is reported; the visit has returned without a panic, and
\* checkInterfaceConformance was called on every interface the type lists
\* directly or transitively, once each.
C19_CyclicConformanceDetected ==
    (declCall.op = "VisitInterfaceDeclaration" /\ declCall.hadType) =>
        LET t == InterfaceDeclarationTypes[declCall.declaration]
            checked == declCall.checked
        IN  /\ ~fatal
            /\ t \in TransitiveConformances(t) =>
                   CyclicConformanceError(t) \in declErrors
            /\ {checked[i] : i \in DOMAIN checked} = TransitiveConformances(t)
            /\ \A i, j \in DOMAIN checked : checked[i] = checked[j] => i = j

\* an interface that lists itself through another one has been visited, and
\* a further conformance was checked after the cyclic one
C19_Witness ==
    /\ declCall.op = "VisitInterfaceDeclaration"
    /\ declCall.hadType
    /\ LET t == InterfaceDeclarationTypes[declCall.declaration]
           checked == declCall.checked
       IN  /\ t \notin Conformances(t)
           /\ t \in TransitiveConformances(t)
           /\ \E i \in DOMAIN checked : checked[i] = t /\ i < Len(checked)
           /\ CyclicConformanceError(t) \in declErrors

(***************************************************************************)
(* checkDuplicateInterfaceMember on its own: two members of the same name, *)
(* one of the interface I and the conflicting one of the interface J.      *)
(***************************************************************************)
Signatures == {"s1", "s2"}

MembersOf(container) ==
    { Member(signature, hasImplementation, hasConditions, container) :
          signature \in Signatures,
          hasImplementation \in BOOLEAN, hasConditions \in BOOLEAN }

InitConflict ==
    /\ checkedMember \in MembersOf("I")
    /\ checkedConflictingMember \in MembersOf("J")
    /\ checkedInherited \in BOOLEAN
    /\ checkedIsDuplicate = FALSE
    /\ conflictErrors = {}
    /\ cpc = "input"
    /\ IdleExceptConflict

CallCheckDuplicateInterfaceMember ==
    /\ cpc = "input"
    /\ LET check == checkDuplicateInterfaceMember(
                        "I", checkedMember, "J", checkedConflictingMember,
                        checkedInherited)
       IN  /\ checkedIsDuplicate' = check.isDuplicate
           /\ conflictErrors' = check.errors
    /\ cpc' = "done"
    /\ UNCHANGED <<checkedMember, checkedConflictingMember, checkedInherited>>
    /\ UNCHANGED nonConflictVars

NextConflict == CallCheckDuplicateInterfaceMember

SpecConflict == InitConflict /\ [][NextConflict]_vars

\* the three forms of a member function: `fun foo()`, `fun foo() { pre{} }`
\* and `fun foo() { ... }`
MemberForm(m) ==
    IF m.HasImplementation THEN "default"
    ELSE IF m.HasConditions THEN "conditions"
    ELSE "declaration"

\* C20: two same-named members of different signatures always conflict.
\* With identical signatures, the member Y of the current declaration
\* conflicts with the inherited member X exactly when X has a default
\* implementation and Y is a declaration only or has a default
\* implementation too; two members of sibling conformances conflict exactly
\* when both have a default implementation.  A conflict is reported as one
\* InterfaceMemberConflictError, and is what the call returns.
C20_MemberConflictRule ==
    cpc = "done" =>
        LET X == checkedConflictingMember
            Y == checkedMember
            conflict == conflictErrors # {}
        IN  /\ checkedIsDuplicate <=> conflict
            /\ conflictErrors \subseteq {InterfaceMemberConflictError("I", "J")}
            /\ X.signature # Y.signature => conflict
            /\ X.signature = Y.signature /\ checkedInherited =>
                   (conflict <=>
                        /\ MemberForm(X) = "default"
                        /\ MemberForm(Y) \in {"declaration", "default"})
            /\ X.signature = Y.signature /\ ~checkedInherited =>
                   (conflict <=>
                        /\ MemberForm(X) = "default"
                        /\ MemberForm(Y) = "default")

\* an inherited default implementation was met by a declaration only, of
\* the same signature, and the conflict was reported
C20_Witness ==
    /\ cpc = "done"
    /\ checkedInherited
    /\ checkedMember.signature = checkedConflictingMember.signature
    /\ MemberForm(checkedConflictingMember) = "default"
    /\ MemberForm(checkedMember) = "declaration"
    /\ checkedIsDuplicate
    /\ conflictErrors = {InterfaceMemberConflictError("I", "J")}

(***************************************************************************)
(* Entitlement mappings (check_interface_declaration.go,                   *)
(* declareEntitlementMappingType).  The names a relation uses are declared *)
(* types: the entitlements E and F, and the structure S.                   *)
(***************************************************************************)
MaxRelations == 2

NominalTypeNames == {"E", "F", "S"}

\* Checker.convertNominalType, for a declared name: the type declared
convertNominalType(name) ==
    IF name \in {"E", "F"} THEN Leaf("Entitlement", name)
    ELSE CompositeType(name)

isEntitlementType(ty) == ty.tag = "Entitlement"

InvalidNonEntitlementTypeInMapError(pos) ==
    [kind |-> "InvalidNonEntitlementTypeInMapError", Pos |-> pos]

\* the position of an identifier of the i-th relation
IdentifierPos(i, side) == [relation |-> i, side |-> side]

NewEntitlementRelation(input, output) == [Input |-> input, Output |-> output]

NoDeclaredRelations == [entitlementRelations |-> <<>>, errors |-> <<>>]

\* the output of a relation is taken as it is
declareRelation_OutputUnchecked(association, i, declared) ==
    LET input == convertNominalType(association.Input)
        output == convertNominalType(association.Output)
    IN  IF ~isEntitlementType(input)
        THEN [declared EXCEPT !.errors =
                  Append(@, InvalidNonEntitlementTypeInMapError(
                                IdentifierPos(i, "Input")))]
        ELSE [declared EXCEPT !.entitlementRelations =
                  Append(@, NewEntitlementRelation(input, output))]

\* one round of the loop of declareEntitlementMappingType
declareRelation(association, i, declared) ==
    LET input == convertNominalType(association.Input)
        output == convertNominalType(association.Output)
    IN  IF ~isEntitlementType(input)
        THEN [declared EXCEPT !.errors =
                  Append(@, InvalidNonEntitlementTypeInMapError(
                                IdentifierPos(i, "Input")))]
        ELSE IF ~isEntitlementType(output)
        THEN [declared EXCEPT !.errors =
                  Append(@, InvalidNonEntitlementTypeInMapError(
                                IdentifierPos(i, "Output")))]
        ELSE [declared EXCEPT !.entitlementRelations =
                  Append(@, NewEntitlementRelation(input, output))]

RECURSIVE declareRelations(_, _, _)
declareRelations(associations, i, declared) ==
    IF i > Len(associations) THEN declared
    ELSE declareRelations(associations, i + 1,
                          declareRelation(associations[i], i, declared))

Associations ==
    [Input : NominalTypeNames, Output : NominalTypeNames]

InitEntMap ==
    /\ mapDeclaration \in UNION {[1..n -> Associations] : n \in 0..MaxRelations}
    /\ mapRelations = <<>>
    /\ mapErrors = <<>>
    /\ mpc = "input"
    /\ IdleExceptEntMap

declareEntitlementMappingType ==
    /\ mpc = "input"
    /\ LET declared == declareRelations(mapDeclaration, 1, NoDeclaredRelations)
       IN  /\ mapRelations' = declared.entitlementRelations
           /\ mapErrors' = mapErrors \o declared.errors
    /\ mpc' = "declared"
    /\ UNCHANGED mapDeclaration
    /\ UNCHANGED nonEntMapVars

NextEntMap == declareEntitlementMappingType

SpecEntMap == InitEntMap /\ [][NextEntMap]_vars

IsEntitlementName(name) == name \in {"E", "F"}

FullyValid(association) ==
    IsEntitlementName(association.Input) /\ IsEntitlementName(association.Output)

\* C21: after declareEntitlementMappingType, the errors reported are one
\* InvalidNonEntitlementTypeInMapError for every relation that is not fully
\* valid, in declaration order, at the input when the input is no
\* entitlement and at the output otherwise; the Relations of the map type
\* are the fully valid relations, in declaration order.
C21_RelationsReported ==
    mpc = "declared" =>
        LET invalid == SelectSeq([i \in DOMAIN mapDeclaration |-> i],
                                 LAMBDA i : ~FullyValid(mapDeclaration[i]))
            valid == SelectSeq(mapDeclaration, FullyValid)
        IN  /\ Len(mapErrors) = Len(invalid)
            /\ \A k \in DOMAIN invalid :
                   mapErrors[k] = InvalidNonEntitlementTypeInMapError(
                       IdentifierPos(
                           invalid[k],
                           IF IsEntitlementName(mapDeclaration[invalid[k]].Input)
                           THEN "Output" ELSE "Input"))
            /\ Len(mapRelations) = Len(valid)
            /\ \A k \in DOMAIN valid :
                   /\ mapRelations[k].Input = Leaf("Entitlement", valid[k].Input)
                   /\ mapRelations[k].Output = Leaf("Entitlement", valid[k].Output)

\* a mapping whose first relation has a bad output and whose last relation
\* is valid was declared: one error, one relation
C21_Witness ==
    /\ mpc = "declared"
    /\ Len(mapDeclaration) >= 2
    /\ IsEntitlementName(mapDeclaration[1].Input)
    /\ ~IsEntitlementName(mapDeclaration[1].Output)
    /\ FullyValid(mapDeclaration[Len(mapDeclaration)])
    /\ Len(mapErrors) >= 1
    /\ Len(mapRelations) >= 1

(***************************************************************************)
(* Chains of subtypes: IsSubType asked of three types, pair by pair.       *)
(***************************************************************************)
\* the types of a chain: the top types, Never, a number, a structure and a
\* resource, and optionals and arrays of them
ChainBaseTypes ==
    {AnyType, AnyStructType, AnyResourceType, NeverType, IntType,
     CompositeType("S"), CompositeType("R")}

ChainTypes ==
    ChainBaseTypes
    \cup {OptionalType(t) : t \in ChainBaseTypes}
    \cup {VariableSizedType(t) : t \in ChainBaseTypes \ {NeverType}}
    \cup {ReferenceType(t, UnauthorizedAccess) :
            t \in {AnyType, AnyStructType, CompositeType("R")}}

InitChain ==
    /\ chainTypes \in [1..3 -> ChainTypes]
    /\ chainResults = <<>>
    /\ chpc = "input"
    /\ IdleExceptChain

CallIsSubTypeChain ==
    /\ chpc = "input"
    /\ chainResults' = <<IsSubType(chainTypes[1], chainTypes[2]),
                         IsSubType(chainTypes[2], chainTypes[3]),
                         IsSubType(chainTypes[1], chainTypes[3])>>
    /\ chpc' = "done"
    /\ UNCHANGED chainTypes
    /\ UNCHANGED nonChainVars

NextChain == CallIsSubTypeChain

SpecChain == InitChain /\ [][NextChain]_vars

\* C22: IsSubType is transitive: when the first type of a chain is a
\* subtype of the second, and the second of the third, the first is a
\* subtype of the third.
C22_Transitive ==
    chpc = "done" =>
        (chainResults[1] /\ chainResults[2] => chainResults[3])

\* a type occurs in another one: as the type itself, or within one of its
\* component types
RECURSIVE ContainsType(_, _)
ContainsType(t, part) ==
    \/ t = part
    \/ \E i \in DOMAIN t.args : ContainsType(t.args[i], part)

\* C23: subtyping never crosses resource kind: when IsSubType holds of a
\* subtype that does not contain Never and a supertype that does not
\* contain Any, both are resource types or neither is.
C23_ResourceKindKept ==
    (/\ pc = "done"
     /\ op = "IsSubType"
     /\ result
     /\ ~ContainsType(subType, NeverType)
     /\ ~ContainsType(superType, AnyType)) =>
        (IsResourceType(subType) <=> IsResourceType(superType))

(***************************************************************************)
(* The visit of the declarations of a program of four interfaces whose     *)
(* types and members are declared: I conforms to the siblings J, K and L,  *)
(* in one order or another.                                                *)
(***************************************************************************)
SiblingLists ==
    { [I |-> <<"J", "K", "L">>, J |-> <<>>, K |-> <<>>, L |-> <<>>],
      [I |-> <<"L", "K", "J">>, J |-> <<>>, K |-> <<>>, L |-> <<>>],
      [I |-> <<"J", "K">>, J |-> <<"L">>, K |-> <<>>, L |-> <<>>] }

\* what a declaration spells out for `foo`, in one signature or another
SiblingMembers ==
    DeclaredMembers \cup {Member("s2", FALSE, FALSE, "")}

InitVisit ==
    /\ interfaceConformances \in SiblingLists
    /\ declarationMembers \in [InterfaceDeclarations -> SiblingMembers]
    /\ InterfaceDeclarationTypes = [d \in InterfaceDeclarations |-> d]
    /\ Members = [d \in InterfaceDeclarations |->
                     IF declarationMembers[d].present
                     THEN [declarationMembers[d] EXCEPT !.ContainerType = d]
                     ELSE NoMember]
    /\ declErrors = {}
    /\ fatal = FALSE
    /\ declCall = [op |-> "declareInterfaceMembersAndValue",
                   declaration |-> "L", hadType |-> TRUE, checked |-> <<>>]
    /\ phasesDone = [d \in InterfaceDeclarations |->
                        {"declareInterfaceType",
                         "declareInterfaceMembersAndValue"}]
    /\ IdleExceptDecl

NextVisit == \E d \in InterfaceDeclarations : VisitInterfaceDeclaration(d)

SpecVisit == InitVisit /\ [][NextVisit]_vars

\* inheritedMembersByName["foo"] when the k-th conformance of the last
\* visit is checked
InheritedBefore(k) ==
    visitConformances(InterfaceDeclarationTypes[declCall.declaration],
                      SubSeq(declCall.checked, 1, k - 1), NoVisit).inherited

\* a conflict of the k-th conformance's member is reported: with a member
\* inherited before, or with the member of the declaration
ConflictReported(k) ==
    LET interfaceType == InterfaceDeclarationTypes[declCall.declaration]
        conformance == declCall.checked[k]
        inherited == InheritedBefore(k)
    IN  \/ \E i \in DOMAIN inherited :
               checkDuplicateInterfaceMember(
                   conformance, Members[conformance],
                   inherited[i].ContainerType, inherited[i],
                   FALSE).isDuplicate
        \/ /\ Members[interfaceType].present
           /\ InterfaceMemberConflictError(interfaceType, conformance) \in
                  checkInterfaceConformance(interfaceType, conformance,
                                            inherited).errors

\* C24: in the visit of a declaration, the member of a conformance is added
\* to the inherited members exactly when no conflict of it is reported,
\* neither with a member inherited from an earlier conformance nor with
\* the member of the declaration.
C24_ConflictingNotInherited ==
    (declCall.op = "VisitInterfaceDeclaration" /\ declCall.hadType) =>
        \A k \in DOMAIN declCall.checked :
            LET conformance == declCall.checked[k]
                interfaceType == InterfaceDeclarationTypes[declCall.declaration]
                after == checkInterfaceConformance(
                             interfaceType, conformance,
                             InheritedBefore(k)).inheritedMembers
            IN  Members[conformance].present =>
                    IF ConflictReported(k)
                    THEN after = InheritedBefore(k)
                    ELSE after = Append(InheritedBefore(k),
                                        Members[conformance])

(***************************************************************************)
(* Operations on types: ID, Map and IsExportable, called on types of       *)
(* every variant.                                                          *)
(***************************************************************************)
\* the strings of a list, separated by commas
RECURSIVE JoinStrings(_)
JoinStrings(strings) ==
    IF strings = <<>> THEN ""
    ELSE IF Len(strings) = 1 THEN strings[1]
    ELSE strings[1] \o "," \o JoinStrings(Tail(strings))

PurityString(purity) == IF purity = "view" THEN "view" ELSE ""

formatFunctionType(purity, typeParameterStrings, parameterStrings, returnString) ==
    (IF purity # "" THEN purity \o " " ELSE "")
    \o "fun"
    \o (IF typeParameterStrings # <<>>
        THEN "<" \o JoinStrings(typeParameterStrings) \o ">" ELSE "")
    \o "(" \o JoinStrings(parameterStrings) \o "):" \o returnString

formatReferenceType(authorization, typeString) ==
    (IF authorization # "" THEN "auth(" \o authorization \o ")" ELSE "")
    \o "&" \o typeString

formatRestrictedType(typeString, restrictionStrings) ==
    typeString \o "{" \o JoinStrings(restrictionStrings) \o "}"

\* the keyword of an authorization: its entitlements, separated by commas
\* in a conjunction and by bars in a disjunction
AccessKeyword(a) ==
    CASE a.ents = {"E"} -> "E"
      [] a.ents = {"E", "F"} /\ a.setKind = "conj" -> "E,F"
      [] a.ents = {"E", "F"} /\ a.setKind = "disj" -> "E|F"
      [] OTHER -> ""

RECURSIVE ID(_)
ID(t) ==
    CASE t.tag \in {"Simple", "Numeric", "FixedPoint"} -> t.name
      [] t.tag = "Generic" -> TypeParameterName[t.name]
      [] t.tag = "Composite" -> CompositeID[t.name]
      [] t.tag = "Interface" -> InterfaceID[t.name]
      [] t.tag = "Optional" -> ID(t.args[1]) \o "?"
      [] t.tag = "VariableSized" -> "[" \o ID(t.args[1]) \o "]"
      [] t.tag = "ConstantSized" ->
            "[" \o ID(t.args[1]) \o ";" \o ToString(t.size) \o "]"
      [] t.tag = "Dictionary" ->
            "{" \o ID(t.args[1]) \o ":" \o ID(t.args[2]) \o "}"
      [] t.tag = "Function" ->
            formatFunctionType(
                PurityString(t.purity),
                [i \in DOMAIN t.tparams |-> TypeParameterName[t.tparams[i]]],
                [i \in DOMAIN Parameters(t) |-> ID(Parameters(t)[i])],
                ID(ReturnType(t)))
      [] t.tag = "Reference" ->
            IF t.auth # UnauthorizedAccess
            THEN formatReferenceType(AccessKeyword(t.auth), ID(t.args[1]))
            ELSE formatReferenceType("", ID(t.args[1]))
      [] t.tag = "Restricted" ->
            formatRestrictedType(
                ID(t.args[1]),
                [i \in DOMAIN t.restrictions |->
                    ID(InterfaceType(t.restrictions[i]))])
      [] t.tag = "Capability" ->
            IF t.args = <<>> THEN "Capability"
            ELSE "Capability<" \o ID(t.args[1]) \o ">"

\* what Map returns: a type, or a panic
Panicked == [panicked |-> TRUE, type |-> NilType]
Mapped(t) == [panicked |-> FALSE, type |-> t]

\* Map called with the identity function for f.  The TypeBound of a type
\* parameter is mapped by a method call on it, which panics when it is nil.
RECURSIVE Map(_)
Map(t) ==
    LET inner == [i \in DOMAIN t.args |-> Map(t.args[i])]
        innerPanicked == \E i \in DOMAIN t.args : inner[i].panicked
        mapped == [i \in DOMAIN t.args |-> inner[i].type]
        boundsPanicked ==
            \E i \in DOMAIN t.tparams :
                \/ TypeParameterTypeBound[t.tparams[i]] = NilType
                \/ Map(TypeParameterTypeBound[t.tparams[i]]).panicked
    IN  CASE t.tag \in {"Simple", "Numeric", "FixedPoint", "Composite",
                        "Interface"} -> Mapped(t)
          [] t.tag = "Generic" ->
                IF \/ TypeParameterTypeBound[t.name] = NilType
                   \/ Map(TypeParameterTypeBound[t.name]).panicked
                THEN Panicked
                ELSE Mapped(GenericType(TypeParameterCopy[t.name]))
          [] t.tag = "Optional" ->
                IF innerPanicked THEN Panicked
                ELSE Mapped(OptionalType(mapped[1]))
          [] t.tag = "VariableSized" ->
                IF innerPanicked THEN Panicked
                ELSE Mapped(VariableSizedType(mapped[1]))
          [] t.tag = "ConstantSized" ->
                IF innerPanicked THEN Panicked
                ELSE Mapped(ConstantSizedType(mapped[1], t.size))
          [] t.tag = "Dictionary" ->
                IF innerPanicked THEN Panicked
                ELSE Mapped(DictionaryType(mapped[1], mapped[2]))
          [] t.tag = "Reference" ->
                IF innerPanicked THEN Panicked
                ELSE Mapped(ReferenceType(mapped[1], t.auth))
          [] t.tag = "Function" ->
                IF innerPanicked \/ boundsPanicked THEN Panicked
                ELSE Mapped(FunctionType(
                        t.purity,
                        [i \in DOMAIN t.tparams |->
                            TypeParameterCopy[t.tparams[i]]],
                        SubSeq(mapped, 1, Len(mapped) - 1),
                        mapped[Len(mapped)],
                        FALSE))
          [] t.tag = "Restricted" ->
                IF innerPanicked THEN Panicked
                ELSE Mapped(RestrictedType(mapped[1], t.restrictions))
          [] t.tag = "Capability" ->
                IF innerPanicked THEN Panicked
                ELSE Mapped(CapabilityType(mapped))

\* IsStorable and IsExportable.  The composite and interface types asked
\* about have a location and no members.
RECURSIVE IsStorable(_)
IsStorable(t) ==
    CASE t.tag \in {"Numeric", "FixedPoint", "Capability"} -> TRUE
      [] t.tag \in {"Generic", "Function", "Reference"} -> FALSE
      [] t.tag \in {"Optional", "VariableSized", "ConstantSized"} ->
            IsStorable(t.args[1])
      [] t.tag = "Dictionary" ->
            IsStorable(t.args[1]) /\ IsStorable(t.args[2])
      [] t.tag = "Composite" ->
            CompositeKind[t.name]
                \in {"structure", "resource", "enum", "attachment"}
      [] t.tag = "Interface" -> TRUE
      [] t.tag = "Restricted" ->
            /\ IsStorable(t.args[1])
            /\ \A i \in DOMAIN t.restrictions :
                  IsStorable(InterfaceType(t.restrictions[i]))

RECURSIVE IsExportable(_)
ConstantSizedTypeIsExportable(t) == IsStorable(t.args[1])

VariableSizedTypeIsExportable(t) == IsExportable(t.args[1])

IsExportable(t) ==
    CASE t.tag \in {"Numeric", "FixedPoint", "Capability", "Function",
                    "Reference"} -> TRUE
      [] t.tag = "Generic" -> FALSE
      [] t.tag = "Optional" -> IsExportable(t.args[1])
      [] t.tag = "VariableSized" -> VariableSizedTypeIsExportable(t)
      [] t.tag = "ConstantSized" -> ConstantSizedTypeIsExportable(t)
      [] t.tag = "Dictionary" ->
            IsExportable(t.args[1]) /\ IsExportable(t.args[2])
      [] t.tag = "Composite" ->
            CompositeKind[t.name]
                \in {"structure", "resource", "enum", "attachment"}
      [] t.tag = "Interface" ->
            InterfaceCompositeKind[t.name] = "structure"
      [] t.tag = "Restricted" ->
            /\ IsExportable(t.args[1])
            /\ \A i \in DOMAIN t.restrictions :
                  IsExportable(InterfaceType(t.restrictions[i]))

\* the element types of the arrays asked about
ElementTypes ==
    {IntType, Fix64Type, CompositeType("S"), CompositeType("R"),
     InterfaceType("SI"), InterfaceType("RI"), GenericType("U"),
     ReferenceType(IntType, UnauthorizedAccess),
     FunctionType("impure", <<>>, <<IntType>>, IntType, FALSE),
     CapabilityType(<<>>), OptionalType(IntType),
     OptionalType(ReferenceType(IntType, UnauthorizedAccess)),
     RestrictedType(CompositeType("S"), <<"SI">>),
     RestrictedType(CompositeType("R"), <<"RI">>)}

\* the types the operations are called on
OpTypes ==
    ElementTypes
    \cup {ConstantSizedType(t, n) : t \in ElementTypes, n \in 1..MaxArraySize}
    \cup {VariableSizedType(t) : t \in ElementTypes}
    \cup {RestrictedType(t, rs) :
            t \in {CompositeType("X"), AnyStructType},
            rs \in RestrictionLists}
    \cup {ReferenceType(CompositeType("S"), a) : a \in Authorizations}
    \cup {FunctionType(purity, <<>>, <<IntType>>, IntType, TRUE) :
            purity \in {"impure", "view"}}
    \cup {FunctionType("impure", <<p>>, <<GenericType(p)>>, IntType, FALSE) :
            p \in TypeParameterPtrs}
    \cup {AnyStructType, StringType, GenericType("T"),
          DictionaryType(StringType, IntType), CapabilityType(<<IntType>>)}

NoOpResult ==
    [equal |-> FALSE, ids |-> <<>>, mapped |-> Panicked, exportable |-> <<>>]

InitTypeOp ==
    /\ opTypes \in OpTypes \X OpTypes
    /\ opCall = ""
    /\ opResult = NoOpResult
    /\ IdleExceptTypeOp

\* a.Equal(b), a.ID() and b.ID()
CallEqualAndID ==
    /\ opCall = ""
    /\ opCall' = "Equal"
    /\ opResult' = [NoOpResult EXCEPT
                      !.equal = Equal(opTypes[1], opTypes[2]),
                      !.ids = <<ID(opTypes[1]), ID(opTypes[2])>>]
    /\ UNCHANGED opTypes
    /\ UNCHANGED nonTypeOpVars

\* a.Map(gauge, f) with the identity function for f
CallMap ==
    /\ opCall = ""
    /\ opCall' = "Map"
    /\ opResult' = [NoOpResult EXCEPT !.mapped = Map(opTypes[1])]
    /\ UNCHANGED opTypes
    /\ UNCHANGED nonTypeOpVars

\* IsExportable of a constant-sized array type, and of the variable-sized
\* array type of the same elements
CallIsExportable ==
    /\ opCall = ""
    /\ opTypes[1].tag = "ConstantSized"
    /\ opCall' = "IsExportable"
    /\ opResult' = [NoOpResult EXCEPT
                      !.exportable =
                          <<IsExportable(opTypes[1]),
                            IsExportable(VariableSizedType(opTypes[1].args[1])),
                            IsExportable(opTypes[1].args[1])>>]
    /\ UNCHANGED opTypes
    /\ UNCHANGED nonTypeOpVars

NextTypeOp ==
    \/ CallEqualAndID
    \/ CallMap
    \/ CallIsExportable

SpecTypeOp == InitTypeOp /\ [][NextTypeOp]_vars

\* C25: equal types have equal IDs: when a.Equal(b) is true, a.ID() and
\* b.ID() are the same string, whatever the order of the restrictions of
\* restricted types.
C25_EqualTypesEqualIDs ==
    opCall = "Equal" /\ opResult.equal => opResult.ids[1] = opResult.ids[2]

\* C27: Map called with the identity function returns a type that is Equal
\* to the receiver, for every variant of type; it does not panic.
C27_MapIdentityEqual ==
    opCall = "Map" =>
        /\ ~opResult.mapped.panicked
        /\ Equal(opResult.mapped.type, opTypes[1])

\* C28: IsExportable of a constant-sized array type is IsExportable of its
\* element type, as it is for the variable-sized array type of the same
\* element type.
C28_ConstantSizedExportable ==
    opCall = "IsExportable" =>
        /\ opResult.exportable[1] = opResult.exportable[3]
        /\ opResult.exportable[1] = opResult.exportable[2]

(***************************************************************************)
(* CompositeType.IsResourceType on attachments, one call at a time: an     *)
(* attachment is of the kind of its base type, which it asks for by a      *)
(* call of IsResourceType on the base type.                                *)
(***************************************************************************)
\* the deepest chain of calls followed
MaxCallDepth == 5

AttachmentPtrs == {"A", "B", "C"}

\* the types an attachment can be declared for
BaseTypePtrs == AttachmentPtrs \cup {"S", "R"}

KindOf(p) == IF p \in AttachmentPtrs THEN "attachment" ELSE CompositeKind[p]

InitBase ==
    /\ attachmentBaseType \in [AttachmentPtrs -> BaseTypePtrs]
    /\ resourceCalls = <<>>
    /\ resourceResult = ""
    /\ IdleExceptBase

\* the receiver of the innermost active call
Receiver == resourceCalls[Len(resourceCalls)]

\* the innermost call gets as far as t.baseType.IsResourceType()
CallsBaseType(t) ==
    /\ KindOf(t) # "resource"
    /\ KindOf(t) = "attachment"
    /\ attachmentBaseType[t] # t

CallCompositeIsResourceType(t) ==
    /\ resourceCalls = <<>>
    /\ resourceResult = ""
    /\ resourceCalls' = <<t>>
    /\ UNCHANGED <<attachmentBaseType, resourceResult>>
    /\ UNCHANGED nonBaseVars

\* t.baseType.IsResourceType() is called
DescendToBaseType ==
    /\ resourceCalls # <<>>
    /\ resourceResult = ""
    /\ CallsBaseType(Receiver)
    /\ Len(resourceCalls) < MaxCallDepth
    /\ resourceCalls' = Append(resourceCalls, attachmentBaseType[Receiver])
    /\ UNCHANGED <<attachmentBaseType, resourceResult>>
    /\ UNCHANGED nonBaseVars

\* the innermost call returns without a further call, and every call of
\* the chain returns what its callee returned
ReturnIsResourceType ==
    /\ resourceCalls # <<>>
    /\ resourceResult = ""
    /\ ~CallsBaseType(Receiver)
    /\ resourceResult' =
          IF KindOf(Receiver) = "resource" THEN "true" ELSE "false"
    /\ resourceCalls' = <<>>
    /\ UNCHANGED attachmentBaseType
    /\ UNCHANGED nonBaseVars

NextBase ==
    \/ \E t \in AttachmentPtrs : CallCompositeIsResourceType(t)
    \/ DescendToBaseType
    \/ ReturnIsResourceType

SpecBase == InitBase /\ [][NextBase]_vars

\* C26: IsResourceType of an attachment terminates: no composite type is
\* the receiver of two calls of one chain of calls, whatever base types
\* the attachments are declared for.
C26_NoCallRepeated ==
    \A i, j \in DOMAIN resourceCalls :
        i # j => resourceCalls[i] # resourceCalls[j]

(***************************************************************************)
(* StorageMigration.MigrateNestedValue on a value without nested values:   *)
(* the loop over the value migrations, one migration at a step.            *)
(***************************************************************************)
\* the longest chain of migrations
MaxMigrations == 3

\* what a migration does when it is called: it converts the value, converts
\* it to a value of another owner, returns nil and no error, returns an
\* error, returns a value and an error, panics with an error, or panics
\* with a value that is no error
MigrationBehaviours ==
    {"convert", "convertOtherOwner", "none", "error", "valueAndError",
     "panicError", "panicOther"}

MigrationName(i) == "m" \o ToString(i)

\* a value is the migrations that made it, and its owner; the nil Value
NoValue == [made |-> <<>>, owner |-> "nil"]
StoredValue == [made |-> <<>>, owner |-> "account"]

\* the value migration i makes of a value
Converted(value, i, owner) ==
    [made |-> Append(value.made, i), owner |-> owner]

\* migration.Migrate: the value and the error returned, or the panic
Migrate(behaviour, value, i) ==
    CASE behaviour = "convert" ->
            [converted |-> Converted(value, i, value.owner), err |-> "",
             panic |-> ""]
      [] behaviour = "convertOtherOwner" ->
            [converted |-> Converted(value, i, "other"), err |-> "",
             panic |-> ""]
      [] behaviour = "none" ->
            [converted |-> NoValue, err |-> "", panic |-> ""]
      [] behaviour = "error" ->
            [converted |-> NoValue, err |-> "error", panic |-> ""]
      [] behaviour = "valueAndError" ->
            [converted |-> Converted(value, i, value.owner),
             err |-> "error", panic |-> ""]
      [] behaviour = "panicError" ->
            [converted |-> NoValue, err |-> "", panic |-> "error"]
      [] behaviour = "panicOther" ->
            [converted |-> NoValue, err |-> "", panic |-> "other"]

\* faulty variant: a panic with an error is recovered and dropped
migrate_ErrorDropped(behaviour, value, i) ==
    LET r == Migrate(behaviour, value, i)
    IN  IF r.panic = "error"
        THEN [converted |-> NoValue, err |-> "", panic |-> ""]
        ELSE r

\* migrate: a panic with an error is recovered and returned as the error,
\* any other panic goes on
migrate(behaviour, value, i) ==
    LET r == Migrate(behaviour, value, i)
    IN  IF r.panic = "error"
        THEN [converted |-> NoValue, err |-> "error", panic |-> ""]
        ELSE r

Report(kind, name) == [kind |-> kind, name |-> name]

\* a call on the reporter, when one is given
Reported(kind, name) ==
    IF reporterGiven THEN Append(reports, Report(kind, name)) ELSE reports

RECURSIVE SeqsOfLen(_, _)
SeqsOfLen(S, n) ==
    IF n = 0 THEN {<<>>}
    ELSE {Append(q, x) : q \in SeqsOfLen(S, n - 1), x \in S}

InitMigration ==
    /\ valueMigrations
          \in UNION {SeqsOfLen(MigrationBehaviours, n) : n \in 0..MaxMigrations}
    /\ reporterGiven \in BOOLEAN
    /\ migratedValue = StoredValue
    /\ newValue = NoValue
    /\ migrationIndex = 1
    /\ reports = <<>>
    /\ migrateInputs = <<>>
    /\ migrationState = "running"
    /\ IdleExceptMigration

\* one round of the loop over the value migrations
MigrateWithNext ==
    /\ migrationState = "running"
    /\ migrationIndex <= Len(valueMigrations)
    /\ migrateInputs' = Append(migrateInputs, migratedValue)
    /\ LET r == migrate(valueMigrations[migrationIndex], migratedValue,
                        migrationIndex)
           name == MigrationName(migrationIndex)
       IN  IF r.panic # ""
           THEN \* no error: both deferred functions panic again
                /\ migrationState' = "panicked"
                /\ UNCHANGED <<migratedValue, newValue, migrationIndex,
                               reports>>
           ELSE IF r.err # ""
           THEN /\ reports' = Reported("Error", name)
                /\ migrationIndex' = migrationIndex + 1
                /\ UNCHANGED <<migratedValue, newValue, migrationState>>
           ELSE IF r.converted = NoValue
           THEN /\ migrationIndex' = migrationIndex + 1
                /\ UNCHANGED <<migratedValue, newValue, migrationState,
                               reports>>
           ELSE IF r.converted.owner # migratedValue.owner
           THEN \* the panic with an unexpected error is recovered by the
                \* deferred function of MigrateNestedValue
                /\ reports' = Reported("Error", "StorageMigration")
                /\ migrationState' = "returned"
                /\ UNCHANGED <<migratedValue, newValue, migrationIndex>>
           ELSE /\ migratedValue' = r.converted
                /\ newValue' = r.converted
                /\ reports' = Reported("Migrated", name)
                /\ migrationIndex' = migrationIndex + 1
                /\ UNCHANGED migrationState
    /\ UNCHANGED <<valueMigrations, reporterGiven>>
    /\ UNCHANGED nonMigrationVars

\* the loop is over: newValue is returned
ReturnNewValue ==
    /\ migrationState = "running"
    /\ migrationIndex > Len(valueMigrations)
    /\ migrationState' = "returned"
    /\ UNCHANGED <<valueMigrations, reporterGiven, migratedValue, newValue,
                   migrationIndex, reports, migrateInputs>>
    /\ UNCHANGED nonMigrationVars

NextMigration ==
    \/ MigrateWithNext
    \/ ReturnNewValue

SpecMigration == InitMigration /\ [][NextMigration]_vars

\* a migration that fails: it returns an error, or panics with an error
Fails(i) == valueMigrations[i] \in {"error", "valueAndError", "panicError"}

\* the calls on the reporter the first n migrations are to make, when the
\* migrations with a behaviour of S count as conversions
RECURSIVE ExpectedReports(_, _)
ExpectedReports(n, S) ==
    IF n = 0 THEN <<>>
    ELSE IF Fails(n)
    THEN Append(ExpectedReports(n - 1, S), Report("Error", MigrationName(n)))
    ELSE IF valueMigrations[n] \in S
    THEN Append(ExpectedReports(n - 1, S),
                Report("Migrated", MigrationName(n)))
    ELSE ExpectedReports(n - 1, S)

\* the most recent conversion after the first n migrations (the stored
\* value when there is none)
RECURSIVE ExpectedValue(_, _)
ExpectedValue(n, S) ==
    IF n = 0 THEN StoredValue
    ELSE IF valueMigrations[n] \in S
    THEN Migrate(valueMigrations[n], ExpectedValue(n - 1, S), n).converted
    ELSE ExpectedValue(n - 1, S)

\* the chain of n migrations ran as a whole, with the behaviours of S for
\* conversions: every migration was called on the most recent conversion,
\* the failures and the conversions were reported in turn, and the last
\* conversion is the new value
ChainRan(n, S) ==
    /\ Len(migrateInputs) = n
    /\ \A i \in 1..n : migrateInputs[i] = ExpectedValue(i - 1, S)
    /\ reports = IF reporterGiven THEN ExpectedReports(n, S) ELSE <<>>
    /\ newValue = IF \E i \in 1..n : valueMigrations[i] \in S
                  THEN ExpectedValue(n, S) ELSE NoValue

\* C29 as stated: when the call returns, every failing migration was
\* reported through reporter.Error under its name and skipped, the others
\* ran on the most recent conversion, every conversion was reported
\* through reporter.Migrated, and the value returned is the last
\* conversion (nil when there is none); the call does not return when a
\* migration panics with a value that is no error.
C29_ChainReported ==
    /\ migrationState = "returned" =>
          /\ \A i \in DOMAIN valueMigrations :
                valueMigrations[i] # "panicOther"
          /\ ChainRan(Len(valueMigrations), {"convert", "convertOtherOwner"})
    /\ migrationState = "panicked" =>
          valueMigrations[Len(migrateInputs)] = "panicOther"

\* the first migration that converts the value to a value of another
\* owner (past the chain when there is none)
FirstOwnerChange ==
    IF \E i \in DOMAIN valueMigrations :
            valueMigrations[i] = "convertOtherOwner"
    THEN CHOOSE i \in DOMAIN valueMigrations :
            /\ valueMigrations[i] = "convertOtherOwner"
            /\ \A j \in 1..(i - 1) : valueMigrations[j] # "convertOtherOwner"
    ELSE Len(valueMigrations) + 1

\* C29, amended: the chain runs as stated up to the first migration that
\* converts the value to a value of another owner; there the chain is
\* given up: the change of owner is reported through reporter.Error under
\* the name StorageMigration, no further migration runs and the value
\* returned is the last conversion before it.
C29_ChainReportedUntilOwnerChange ==
    /\ migrationState = "returned" =>
          LET n == Len(migrateInputs)
          IN  /\ n = IF FirstOwnerChange <= Len(valueMigrations)
                     THEN FirstOwnerChange ELSE Len(valueMigrations)
              /\ \A i \in 1..n : valueMigrations[i] # "panicOther"
              /\ Len(migrateInputs) = n
              /\ \A i \in 1..n :
                    migrateInputs[i] = ExpectedValue(i - 1, {"convert"})
              /\ reports =
                    IF ~reporterGiven THEN <<>>
                    ELSE IF FirstOwnerChange <= Len(valueMigrations)
                    THEN Append(ExpectedReports(n, {"convert"}),
                                Report("Error", "StorageMigration"))
                    ELSE ExpectedReports(n, {"convert"})
              /\ newValue =
                    IF \E i \in 1..n : valueMigrations[i] = "convert"
                    THEN ExpectedValue(n, {"convert"}) ELSE NoValue
    /\ migrationState = "panicked" =>
          /\ valueMigrations[Len(migrateInputs)] = "panicOther"
          /\ Len(migrateInputs) < FirstOwnerChange

\* a chain has returned in which a conversion follows a failure that
\* follows a conversion
C29_Witness ==
    /\ migrationState = "returned"
    /\ reporterGiven
    /\ Len(migrateInputs) = Len(valueMigrations)
    /\ \E i, j, k \in DOMAIN valueMigrations :
          /\ i < j /\ j < k
          /\ valueMigrations[i] = "convert"
          /\ Fails(j)
          /\ valueMigrations[k] = "convert"

(***************************************************************************)
(* UInt32Value.Div and UInt32Value.SaturatingDiv.                          *)
(***************************************************************************)
\* the UInt32 values divided
UInt32Values == {0, 1, 2, 7, 65536, 2147483646, 2147483647}

\* the other operand: a UInt32Value, or a NumberValue of another type
Operand(isUInt32, value) == [isUInt32 |-> isUInt32, value |-> value]

\* how a call ends: with a value, with nil, or with a panic
NoCall == [kind |-> "none", value |-> 0, error |-> "", FunctionName |-> ""]
Returns(value) == [NoCall EXCEPT !.kind = "value", !.value = value]
ReturnsNil == [NoCall EXCEPT !.kind = "nil"]
Panics(error, name) ==
    [NoCall EXCEPT !.kind = "panic", !.error = error, !.FunctionName = name]

\* uint32(v / o): the quotient of two UInt32 values is a UInt32 value
UInt32Div(v, other) ==
    IF ~other.isUInt32 THEN Panics("InvalidOperandsError", "")
    ELSE IF other.value = 0 THEN Panics("DivisionByZeroError", "")
    ELSE Returns(v \div other.value)

\* the deferred function recovers every panic of Div, and panics again
\* only for an InvalidOperandsError; after any other panic the function
\* returns, and its result, never set, is nil
UInt32SaturatingDiv(v, other) ==
    LET r == UInt32Div(v, other)
    IN  IF r.kind = "panic"
        THEN IF r.error = "InvalidOperandsError"
             THEN Panics("InvalidOperandsError", "saturatingDivide")
             ELSE ReturnsNil
        ELSE r

InitDiv ==
    /\ dividend \in UInt32Values
    /\ divisor \in {Operand(TRUE, o) : o \in UInt32Values}
                    \cup {Operand(FALSE, 1)}
    /\ divResult = NoCall
    /\ saturatingDivResult = NoCall
    /\ IdleExceptDiv

CallDiv ==
    /\ divResult = NoCall
    /\ divResult' = UInt32Div(dividend, divisor)
    /\ UNCHANGED <<dividend, divisor, saturatingDivResult>>
    /\ UNCHANGED nonDivVars

CallSaturatingDiv ==
    /\ saturatingDivResult = NoCall
    /\ saturatingDivResult' = UInt32SaturatingDiv(dividend, divisor)
    /\ UNCHANGED <<dividend, divisor, divResult>>
    /\ UNCHANGED nonDivVars

NextDiv ==
    \/ CallDiv
    \/ CallSaturatingDiv

SpecDiv == InitDiv /\ [][NextDiv]_vars

\* C30: SaturatingDiv of UInt32 values with a zero divisor panics with a
\* DivisionByZeroError as Div does, and returns no nil; with another
\* divisor it returns the quotient Div returns.
C30_SaturatingDivAsDiv ==
    /\ divisor.isUInt32
    /\ divResult # NoCall
    /\ saturatingDivResult # NoCall
    => /\ saturatingDivResult.kind # "nil"
       /\ saturatingDivResult = divResult
       /\ divisor.value = 0 =>
             /\ saturatingDivResult.kind = "panic"
             /\ saturatingDivResult.error = "DivisionByZeroError"

====
